---- MODULE Spec2Model ----
(***************************************************************************)
(* A model of canny-cli: one invocation of the command line client against *)
(* an arbitrary server.  The client's endpoint methods (src/src/api.rs),   *)
(* the depagination loop of `users list` (CannyClient::list_users) and the *)
(* command handlers (src/src/main.rs) are translated from the source.      *)
(*                                                                         *)
(* The transport and the JSON library are collaborators: a request either  *)
(* fails to be sent, or yields a status and a body text (whose reading may *)
(* fail as well); a body text is either not JSON at all or a JSON value.   *)
(***************************************************************************)
EXTENDS Integers, Sequences, FiniteSets, TLC

(***************************************************************************)
(* Bounds of the model.                                                    *)
(***************************************************************************)
\* The page fetches one `users list` run may issue in Spec.
MaxFetches == 3
\* The page fetches one `users list` run may issue in SpecCeiling.
MaxCeilingFetches == 1100
\* The endpoint calls made on one client in SpecClient.
MaxCalls == 3

(***************************************************************************)
(* Program constants.                                                      *)
(***************************************************************************)
\* api.rs:746  let limit: u32 = 100; // API max is 100
PageLimit == 100
\* api.rs:769  if all_users.len() > 100000
SafetyLimit == 100000

(***************************************************************************)
(* Option<T> and Result<T>.                                                *)
(***************************************************************************)
None == [some |-> FALSE]
Some(x) == [some |-> TRUE, v |-> x]
Ok(x) == [ok |-> TRUE, v |-> x]
Err(e) == [ok |-> FALSE, e |-> e]

(***************************************************************************)
(* Vec<T> and the JSON arrays, as sequences of runs: <<Run(x, 3), Run(y, 1)>>*)
(* is x, x, x, y.  A run has n >= 1 and adjacent runs differ in x, so that  *)
(* equal vectors are equal values.                                          *)
(***************************************************************************)
Run(x, n) == [x |-> x, n |-> n]

RECURSIVE VecLen(_)
VecLen(vec) == IF vec = <<>> THEN 0 ELSE vec[1].n + VecLen(Tail(vec))

RECURSIVE VecAt(_, _)
VecAt(vec, pos) ==
    IF pos <= vec[1].n THEN vec[1].x ELSE VecAt(Tail(vec), pos - vec[1].n)

VecConcat(a, b) ==
    IF a = <<>> THEN b
    ELSE IF b = <<>> THEN a
    ELSE IF a[Len(a)].x = b[1].x
    THEN SubSeq(a, 1, Len(a) - 1) \o <<Run(b[1].x, a[Len(a)].n + b[1].n)>> \o Tail(b)
    ELSE a \o b

\* The vector of the elements of a sequence.
RECURSIVE Vec(_)
Vec(seq) ==
    IF seq = <<>> THEN <<>>
    ELSE VecConcat(Vec(SubSeq(seq, 1, Len(seq) - 1)), <<Run(seq[Len(seq)], 1)>>)

(***************************************************************************)
(* u32, as two 16-bit limbs (the CLI's --skip and --limit).                *)
(***************************************************************************)
Limb == 256 * 256
U32(hi, lo) == [hi |-> hi, lo |-> lo]
U32Max == U32(Limb - 1, Limb - 1)

\* The integer sum of two u32: its high limb is not reduced.
Sum(a, b) ==
    [hi |-> a.hi + b.hi + ((a.lo + b.lo) \div Limb), lo |-> (a.lo + b.lo) % Limb]

\* a + b does not fit a u32
Overflows(a, b) == Sum(a, b).hi >= Limb

\* a + b as the release build computes it
WrappingAdd(a, b) == [hi |-> Sum(a, b).hi % Limb, lo |-> Sum(a, b).lo]

(***************************************************************************)
(* serde_json::Value.  An object is a function from its keys to values.    *)
(***************************************************************************)
JNull == [t |-> "null"]
JBool(b) == [t |-> "bool", b |-> b]
JNum(n) == [t |-> "num", n |-> n]
JStr(s) == [t |-> "str", s |-> s]
JArr(a) == [t |-> "arr", a |-> a]
JObj(o) == [t |-> "obj", o |-> o]
NoFields == [k \in {} |-> JNull]

\* A response body that is not JSON (an HTML error page, a truncated body).
NotJson == [t |-> "garbage"]

\* serde_json::from_str::<Value>(&text)
FromStr(text) ==
    IF text.t = "garbage" THEN Err([msg |-> "expected value"]) ELSE Ok(text)

\* Value::get(key): Some(value) on an object that has the key, else None
\* (also None on every value that is not an object).
Get(value, key) ==
    IF value.t = "obj" /\ key \in DOMAIN value.o THEN Some(value.o[key]) ELSE None

\* Value::as_bool / Value::as_str
AsBool(value) == IF value.t = "bool" THEN Some(value.b) ELSE None
AsStr(value) == IF value.t = "str" THEN Some(value.s) ELSE None

(***************************************************************************)
(* Errors (anyhow): the API error carries the status and the body text.    *)
(***************************************************************************)
\* anyhow::bail!("API error ({}): {}", status, text)
ApiError(status, text) == [msg |-> "API error", status |-> status, text |-> text]
\* .context(msg) / anyhow::anyhow!(msg) / anyhow::bail!(msg)
Failure(msg) == [msg |-> msg]

\* StatusCode::is_success(): 200..=299
IsSuccess(status) == 200 <= status /\ status < 300

(***************************************************************************)
(* Transport outcomes of one request.                                      *)
(***************************************************************************)
SendError == [kind |-> "send_error"]
TextError(status) == [kind |-> "text_error", status |-> status]
Response(status, text) == [kind |-> "response", status |-> status, text |-> text]

(***************************************************************************)
(* serde: the records of models.rs.  A record is decoded from an object    *)
(* that has the record's required fields; the optional fields of the       *)
(* records (all #[serde(default)]) are left out of the model.              *)
(***************************************************************************)
RequiredFields(type) ==
    CASE type = "CannyPost"    -> {"id", "title", "url"}
      [] type = "CannyComment" -> {"id", "value", "created"}
      [] type \in {"CannyCategory", "CannyBoard", "CannyTag"} -> {"id", "name"}
      [] OTHER -> {"id"}

DecodeRecord(value, type) ==
    IF \A f \in RequiredFields(type) :
          Get(value, f).some /\ AsStr(Get(value, f).v).some
    THEN Ok([f \in RequiredFields(type) |-> AsStr(Get(value, f).v).v])
    ELSE Err([msg |-> "invalid record"])

\* Vec<T>
DecodeVec(value, type) ==
    IF value.t # "arr" THEN Err([msg |-> "expected a sequence"])
    ELSE IF \E i \in 1..Len(value.a) : ~DecodeRecord(value.a[i].x, type).ok
         THEN Err([msg |-> "invalid record"])
         ELSE Ok([i \in 1..Len(value.a) |->
                    Run(DecodeRecord(value.a[i].x, type).v, value.a[i].n)])

\* Option<T>: null is None
DecodeOption(value, type) ==
    IF value.t = "null" THEN Ok(None)
    ELSE IF DecodeRecord(value, type).ok THEN Ok(Some(DecodeRecord(value, type).v))
    ELSE Err([msg |-> "invalid record"])

\* Option<String>
DecodeOptionString(value) ==
    IF value.t = "null" THEN Ok(None)
    ELSE IF value.t = "str" THEN Ok(Some(value.s))
    ELSE Err([msg |-> "expected a string"])

\* A derived struct is decoded from an object, by key, or from an array, by
\* position: the value of the field `key`, declared at position `pos`.
StructField(value, key, pos) ==
    IF value.t = "arr"
    THEN IF pos <= VecLen(value.a) THEN Some(VecAt(value.a, pos)) ELSE None
    ELSE Get(value, key)

\* An object, or an array with no more elements than the struct has fields.
IsStruct(value, nfields) ==
    value.t = "obj" \/ (value.t = "arr" /\ VecLen(value.a) <= nfields)

(***************************************************************************)
(* The endpoint methods of CannyClient.                                    *)
(*   endpoint: the path posted to                                          *)
(*   decode:   how the 2xx body is decoded                                 *)
(*     "list"        a list response struct: hasMore and the items         *)
(*     "list_cursor" a list response struct with a cursor                  *)
(*     "boards"      list_boards, "companies" list_companies,              *)
(*     "users"       fetch_users_page: decoded from a serde_json::Value    *)
(*     "retrieve"    a retrieve response struct: one Option field          *)
(*     "user"        get_user: the record itself                           *)
(*     "create"      CreateResponse / AutopilotEnqueueResponse             *)
(*     "unit"        the body is not decoded                               *)
(*   key, item: the key of the payload and the type of its records         *)
(***************************************************************************)
M(endpoint, decode, key, item) ==
    [endpoint |-> endpoint, decode |-> decode, key |-> key, item |-> item]

MethodTable ==
       ("list_posts" :> M("/posts/list", "list", "posts", "CannyPost"))
    @@ ("get_post" :> M("/posts/retrieve", "retrieve", "post", "CannyPost"))
    @@ ("create_post" :> M("/posts/create", "create", "id", "String"))
    @@ ("change_post_status" :> M("/posts/change_status", "unit", "", ""))
    @@ ("update_post" :> M("/posts/update", "unit", "", ""))
    @@ ("delete_post" :> M("/posts/delete", "unit", "", ""))
    @@ ("change_post_category" :> M("/posts/change_category", "unit", "", ""))
    @@ ("add_post_tag" :> M("/posts/add_tag", "unit", "", ""))
    @@ ("remove_post_tag" :> M("/posts/remove_tag", "unit", "", ""))
    @@ ("link_post_jira" :> M("/posts/link_jira", "unit", "", ""))
    @@ ("unlink_post_jira" :> M("/posts/unlink_jira", "unit", "", ""))
    @@ ("list_comments" :> M("/comments/list", "list", "comments", "CannyComment"))
    @@ ("create_comment" :> M("/comments/create", "create", "id", "String"))
    @@ ("get_comment" :> M("/comments/retrieve", "retrieve", "comment", "CannyComment"))
    @@ ("delete_comment" :> M("/comments/delete", "unit", "", ""))
    @@ ("list_categories" :> M("/categories/list", "list", "categories", "CannyCategory"))
    @@ ("get_category" :> M("/categories/retrieve", "retrieve", "category", "CannyCategory"))
    @@ ("create_category" :> M("/categories/create", "create", "id", "String"))
    @@ ("delete_category" :> M("/categories/delete", "unit", "", ""))
    @@ ("fetch_users_page" :> M("/users/list", "users", "users", "CannyUserFull"))
    @@ ("get_user" :> M("/users/retrieve", "user", "", "CannyUserFull"))
    @@ ("create_or_update_user" :> M("/users/create_or_update", "create", "id", "String"))
    @@ ("delete_user" :> M("/users/delete", "unit", "", ""))
    @@ ("find_user" :> M("/users/find", "retrieve", "user", "CannyUserFull"))
    @@ ("remove_user_from_company" :> M("/users/remove_from_company", "unit", "", ""))
    @@ ("list_boards" :> M("/boards/list", "boards", "boards", "CannyBoard"))
    @@ ("get_board" :> M("/boards/retrieve", "retrieve", "board", "CannyBoard"))
    @@ ("create_board" :> M("/boards/create", "create", "id", "String"))
    @@ ("delete_board" :> M("/boards/delete", "unit", "", ""))
    @@ ("list_tags" :> M("/tags/list", "list", "tags", "CannyTag"))
    @@ ("get_tag" :> M("/tags/retrieve", "retrieve", "tag", "CannyTag"))
    @@ ("create_tag" :> M("/tags/create", "create", "id", "String"))
    @@ ("delete_tag" :> M("/tags/delete", "unit", "", ""))
    @@ ("list_companies" :> M("/companies/list", "companies", "companies", "CannyCompany"))
    @@ ("update_company" :> M("/companies/update", "unit", "", ""))
    @@ ("delete_company" :> M("/companies/delete", "unit", "", ""))
    @@ ("get_company" :> M("/companies/retrieve", "retrieve", "company", "CannyCompany"))
    @@ ("list_votes" :> M("/votes/list", "list", "votes", "CannyVote"))
    @@ ("get_vote" :> M("/votes/retrieve", "retrieve", "vote", "CannyVote"))
    @@ ("create_vote" :> M("/votes/create", "unit", "", ""))
    @@ ("delete_vote" :> M("/votes/delete", "unit", "", ""))
    @@ ("list_status_changes" :> M("/status_changes/list", "list", "statusChanges", "CannyStatusChange"))
    @@ ("list_entries" :> M("/entries/list", "list", "entries", "CannyEntry"))
    @@ ("get_entry" :> M("/entries/retrieve", "retrieve", "entry", "CannyEntry"))
    @@ ("delete_entry" :> M("/entries/delete", "unit", "", ""))
    @@ ("create_entry" :> M("/entries/create", "create", "id", "String"))
    @@ ("update_entry" :> M("/entries/update", "unit", "", ""))
    @@ ("list_opportunities" :> M("/opportunities/list", "list", "opportunities", "CannyOpportunity"))
    @@ ("list_groups" :> M("/groups/list", "list_cursor", "groups", "CannyGroup"))
    @@ ("get_group" :> M("/groups/retrieve", "retrieve", "group", "CannyGroup"))
    @@ ("list_insights" :> M("/insights/list", "list_cursor", "insights", "CannyInsight"))
    @@ ("get_insight" :> M("/insights/retrieve", "retrieve", "insight", "CannyInsight"))
    @@ ("list_ideas" :> M("/ideas/list", "list_cursor", "ideas", "CannyIdea"))
    @@ ("get_idea" :> M("/ideas/retrieve", "retrieve", "idea", "CannyIdea"))
    @@ ("enqueue_autopilot_feedback" :> M("/autopilot/enqueue", "create", "id", "String"))

Methods == DOMAIN MethodTable

\* The two methods that post to base_url = self.api_url.replace("/v1", "/v2")
Base(method) ==
    IF method \in {"fetch_users_page", "list_companies"}
    THEN "api_url.replace(/v1, /v2)"
    ELSE "api_url"

(***************************************************************************)
(* The decoders of the 2xx body, one for each shape.                       *)
(***************************************************************************)
\* serde_json::from_str::<XListResponse>(&text)
DecodeList(text, key, item, with_cursor) ==
    IF ~FromStr(text).ok THEN Err(Failure("Failed to parse response"))
    ELSE LET value == FromStr(text).v
             has_more == StructField(value, "hasMore", 1)
             cursor == StructField(value, "cursor", 2)
             items == StructField(value, key, IF with_cursor THEN 3 ELSE 2)
         IN  IF /\ IsStruct(value, IF with_cursor THEN 3 ELSE 2)
                /\ has_more.some /\ AsBool(has_more.v).some
                /\ items.some /\ DecodeVec(items.v, item).ok
                /\ (with_cursor /\ cursor.some) => DecodeOptionString(cursor.v).ok
             THEN Ok([has_more |-> AsBool(has_more.v).v,
                      cursor   |-> IF with_cursor /\ cursor.some
                                   THEN DecodeOptionString(cursor.v).v
                                   ELSE None,
                      items    |-> DecodeVec(items.v, item).v])
             ELSE Err(Failure("Failed to parse response"))

\* DecodeRetrieve with a null or missing resource turned into an error.
DecodeRetrieveStrict(text, key, item) ==
    IF ~FromStr(text).ok THEN Err(Failure("Failed to parse response"))
    ELSE LET value == FromStr(text).v
             field == StructField(value, key, 1)
         IN  IF IsStruct(value, 1) /\ field.some /\ DecodeRecord(field.v, item).ok
             THEN Ok(Some(DecodeRecord(field.v, item).v))
             ELSE Err(Failure("Failed to parse response"))

\* serde_json::from_str::<XRetrieveResponse>(&text), then Ok(result.x)
DecodeRetrieve(text, key, item) ==
    IF ~FromStr(text).ok THEN Err(Failure("Failed to parse response"))
    ELSE LET value == FromStr(text).v
             field == StructField(value, key, 1)
         IN  IF ~IsStruct(value, 1) THEN Err(Failure("Failed to parse response"))
             ELSE IF ~field.some
             THEN IF value.t = "obj" THEN Ok(None)
                  ELSE Err(Failure("Failed to parse response"))
             ELSE IF DecodeOption(field.v, item).ok THEN DecodeOption(field.v, item)
             ELSE Err(Failure("Failed to parse response"))

\* DecodeUser with the decode error propagated, as the other retrieve
\* methods do.
DecodeUserStrict(text) ==
    IF FromStr(text).ok /\ DecodeRecord(FromStr(text).v, "CannyUserFull").ok
    THEN Ok(Some(DecodeRecord(FromStr(text).v, "CannyUserFull").v))
    ELSE Err(Failure("Failed to parse response"))

\* get_user: Ok(serde_json::from_str::<CannyUserFull>(&text).ok())
DecodeUser(text) ==
    IF FromStr(text).ok /\ DecodeRecord(FromStr(text).v, "CannyUserFull").ok
    THEN Ok(Some(DecodeRecord(FromStr(text).v, "CannyUserFull").v))
    ELSE Ok(None)

\* serde_json::from_str::<CreateResponse>(&text), then Ok(result.id)
DecodeCreate(text) ==
    IF ~FromStr(text).ok THEN Err(Failure("Failed to parse response"))
    ELSE LET value == FromStr(text).v
             id == StructField(value, "id", 1)
         IN  IF IsStruct(value, 1) /\ id.some /\ AsStr(id.v).some
             THEN Ok(AsStr(id.v).v)
             ELSE Err(Failure("Failed to parse response"))

\* list_boards: value.get("boards").cloned().unwrap_or(json!([]))
DecodeBoards(text) ==
    IF ~FromStr(text).ok THEN Err(Failure("Failed to parse response as JSON"))
    ELSE LET value == FromStr(text).v
             boards_value == IF Get(value, "boards").some
                             THEN Get(value, "boards").v
                             ELSE JArr(<<>>)
         IN  IF DecodeVec(boards_value, "CannyBoard").ok
             THEN Ok([items |-> DecodeVec(boards_value, "CannyBoard").v])
             ELSE Err(Failure("Failed to parse boards from response"))

\* ItemsValue with the legacy key looked up first.
ItemsValueLegacyFirst(value, legacy) ==
    IF Get(value, legacy).some THEN Get(value, legacy).v
    ELSE IF Get(value, "items").some THEN Get(value, "items").v
    ELSE JArr(<<>>)

\* obj.get("items").or_else(|| obj.get(legacy)).cloned().unwrap_or(json!([]))
ItemsValue(value, legacy) ==
    IF Get(value, "items").some THEN Get(value, "items").v
    ELSE IF Get(value, legacy).some THEN Get(value, legacy).v
    ELSE JArr(<<>>)

\* obj.get("hasNextPage").and_then(|v| v.as_bool())
HasNextPage(value) ==
    IF Get(value, "hasNextPage").some
    THEN AsBool(Get(value, "hasNextPage").v)
    ELSE None

\* obj.get("cursor").and_then(|v| v.as_str()).map(|s| s.to_string())
NextCursor(value) ==
    IF Get(value, "cursor").some THEN AsStr(Get(value, "cursor").v) ELSE None

\* UnwrapOrFalse with a missing value taken for true.
UnwrapOrTrue(opt) == IF opt.some THEN opt.v ELSE TRUE

\* Option::unwrap_or(false)
UnwrapOrFalse(opt) == IF opt.some THEN opt.v ELSE FALSE

\* list_companies, from the 2xx body on
DecodeCompanies(text) ==
    IF ~FromStr(text).ok THEN Err(Failure("Failed to parse response as JSON"))
    ELSE LET value == FromStr(text).v IN
         IF value.t # "obj" THEN Err(Failure("Expected object response"))
         ELSE IF ~DecodeVec(ItemsValue(value, "companies"), "CannyCompany").ok
              THEN Err(Failure("Failed to parse companies from response"))
              ELSE Ok([has_next_page |-> HasNextPage(value),
                       cursor        |-> NextCursor(value),
                       items         |-> DecodeVec(ItemsValue(value, "companies"),
                                                   "CannyCompany").v])

\* fetch_users_page, from the 2xx body on
DecodeUsersPage(text) ==
    IF ~FromStr(text).ok THEN Err(Failure("Failed to parse response as JSON"))
    ELSE LET value == FromStr(text).v IN
         IF value.t # "obj" THEN Err(Failure("Expected object response"))
         ELSE LET users == DecodeVec(ItemsValue(value, "users"), "CannyUserFull") IN
              IF ~users.ok
              THEN Err(Failure("Failed to parse users from response"))
              ELSE Ok([users       |-> users.v,
                       next_cursor |-> NextCursor(value),
                       has_next    |-> UnwrapOrFalse(HasNextPage(value))])

\* The body of a 2xx response, decoded as the method decodes it.
Decode(method, text) ==
    LET m == MethodTable[method] IN
    CASE m.decode = "list"        -> DecodeList(text, m.key, m.item, FALSE)
      [] m.decode = "list_cursor" -> DecodeList(text, m.key, m.item, TRUE)
      [] m.decode = "retrieve"    -> DecodeRetrieve(text, m.key, m.item)
      [] m.decode = "user"        -> DecodeUser(text)
      [] m.decode = "create"      -> DecodeCreate(text)
      [] m.decode = "boards"      -> DecodeBoards(text)
      [] m.decode = "companies"   -> DecodeCompanies(text)
      [] m.decode = "users"       -> DecodeUsersPage(text)
      [] OTHER                    -> Ok("unit")

\* MethodResult with the body decoded before the status is looked at.
MethodResultDecodeFirst(method, outcome) ==
    IF outcome.kind = "send_error" THEN Err(Failure("Failed to send request"))
    ELSE IF outcome.kind = "text_error" THEN Err(Failure("error decoding response body"))
    ELSE IF Decode(method, outcome.text).ok THEN Decode(method, outcome.text)
    ELSE IF ~IsSuccess(outcome.status) THEN Err(ApiError(outcome.status, outcome.text))
    ELSE Decode(method, outcome.text)

\* Every endpoint method, from `.send().await` on: the transport failures,
\* then the status check, then the decoding of the body.
MethodResult(method, outcome) ==
    IF outcome.kind = "send_error" THEN Err(Failure("Failed to send request"))
    ELSE IF outcome.kind = "text_error" THEN Err(Failure("error decoding response body"))
    ELSE IF ~IsSuccess(outcome.status) THEN Err(ApiError(outcome.status, outcome.text))
    ELSE Decode(method, outcome.text)

\* CannyClient::fetch_users_page
FetchUsersPage(outcome) == MethodResult("fetch_users_page", outcome)

\* The request a method posts.  `body` is the JSON body of fetch_users_page.
Request(method) == [endpoint |-> MethodTable[method].endpoint, base |-> Base(method)]

\* UsersPageRequest with the cursor left out of the body.
UsersPageRequestNoCursor(cursor, limit) ==
    [endpoint |-> MethodTable["fetch_users_page"].endpoint,
     base     |-> Base("fetch_users_page"),
     body     |-> ("apiKey" :> "api_key") @@ ("limit" :> limit)]

\* The request of fetch_users_page: the cursor is in the body when there is one.
UsersPageRequest(cursor, limit) ==
    [endpoint |-> MethodTable["fetch_users_page"].endpoint,
     base     |-> Base("fetch_users_page"),
     body     |-> IF cursor.some
                  THEN ("apiKey" :> "api_key") @@ ("limit" :> limit) @@ ("cursor" :> cursor.v)
                  ELSE ("apiKey" :> "api_key") @@ ("limit" :> limit)]

(***************************************************************************)
(* The request bodies.  Every endpoint method starts from                  *)
(* json!({ mandatory fields }) and then, for each Option parameter,        *)
(*     if let Some(x) = param { body["key"] = json!(x); }                  *)
(*   mandatory, optional: the keys and the types of their parameters:      *)
(*     "str" &str, "u32", "bool", "vec" Vec<&str>, "f64",                  *)
(*     "value" serde_json::Value                                           *)
(***************************************************************************)
NoParams == [k \in {} |-> "str"]

B(mandatory, optional) == [mandatory |-> mandatory, optional |-> optional]

BodyTable ==
       ("list_posts" :>
          B(("apiKey" :> "str") @@ ("boardID" :> "str"),
            ("limit" :> "u32") @@ ("skip" :> "u32") @@ ("sort" :> "str") @@ ("status" :> "str") @@ ("authorID" :> "str") @@ ("search" :> "str") @@ ("companyID" :> "str") @@ ("tagIDs" :> "vec")))
    @@ ("get_post" :>
          B(("apiKey" :> "str"),
            ("id" :> "str") @@ ("urlName" :> "str") @@ ("boardID" :> "str")))
    @@ ("create_post" :>
          B(("apiKey" :> "str") @@ ("boardID" :> "str") @@ ("authorID" :> "str") @@ ("title" :> "str"),
            ("details" :> "str") @@ ("categoryID" :> "str") @@ ("byID" :> "str") @@ ("customFields" :> "value") @@ ("eta" :> "str") @@ ("etaPublic" :> "bool") @@ ("ownerID" :> "str") @@ ("imageURLs" :> "vec") @@ ("createdAt" :> "str")))
    @@ ("change_post_status" :>
          B(("apiKey" :> "str") @@ ("postID" :> "str") @@ ("changerID" :> "str") @@ ("status" :> "str") @@ ("shouldNotifyVoters" :> "bool"),
            ("commentValue" :> "str") @@ ("commentImageURLs" :> "vec")))
    @@ ("update_post" :>
          B(("apiKey" :> "str") @@ ("postID" :> "str"),
            ("title" :> "str") @@ ("details" :> "str") @@ ("imageURLs" :> "vec") @@ ("eta" :> "str") @@ ("etaPublic" :> "bool") @@ ("customFields" :> "value")))
    @@ ("delete_post" :>
          B(("apiKey" :> "str") @@ ("postID" :> "str"),
            NoParams))
    @@ ("change_post_category" :>
          B(("apiKey" :> "str") @@ ("postID" :> "str") @@ ("categoryID" :> "str"),
            NoParams))
    @@ ("add_post_tag" :>
          B(("apiKey" :> "str") @@ ("postID" :> "str") @@ ("tagID" :> "str"),
            NoParams))
    @@ ("remove_post_tag" :>
          B(("apiKey" :> "str") @@ ("postID" :> "str") @@ ("tagID" :> "str"),
            NoParams))
    @@ ("link_post_jira" :>
          B(("apiKey" :> "str") @@ ("postID" :> "str") @@ ("issueKey" :> "str"),
            NoParams))
    @@ ("unlink_post_jira" :>
          B(("apiKey" :> "str") @@ ("postID" :> "str") @@ ("issueKey" :> "str"),
            NoParams))
    @@ ("list_comments" :>
          B(("apiKey" :> "str"),
            ("postID" :> "str") @@ ("authorID" :> "str") @@ ("boardID" :> "str") @@ ("companyID" :> "str") @@ ("limit" :> "u32") @@ ("skip" :> "u32")))
    @@ ("create_comment" :>
          B(("apiKey" :> "str") @@ ("postID" :> "str") @@ ("authorID" :> "str") @@ ("value" :> "str"),
            ("parentID" :> "str") @@ ("createdAt" :> "str") @@ ("imageURLs" :> "vec") @@ ("internal" :> "bool") @@ ("shouldNotifyVoters" :> "bool")))
    @@ ("get_comment" :>
          B(("apiKey" :> "str") @@ ("id" :> "str"),
            NoParams))
    @@ ("delete_comment" :>
          B(("apiKey" :> "str") @@ ("commentID" :> "str"),
            NoParams))
    @@ ("list_categories" :>
          B(("apiKey" :> "str") @@ ("boardID" :> "str"),
            ("limit" :> "u32") @@ ("skip" :> "u32")))
    @@ ("get_category" :>
          B(("apiKey" :> "str") @@ ("id" :> "str"),
            NoParams))
    @@ ("create_category" :>
          B(("apiKey" :> "str") @@ ("boardID" :> "str") @@ ("name" :> "str") @@ ("subscribeAdmins" :> "bool"),
            ("parentID" :> "str")))
    @@ ("delete_category" :>
          B(("apiKey" :> "str") @@ ("categoryID" :> "str"),
            NoParams))
    @@ ("fetch_users_page" :>
          B(("apiKey" :> "str") @@ ("limit" :> "u32"),
            ("cursor" :> "str")))
    @@ ("get_user" :>
          B(("apiKey" :> "str"),
            ("id" :> "str") @@ ("email" :> "str")))
    @@ ("create_or_update_user" :>
          B(("apiKey" :> "str") @@ ("userID" :> "str") @@ ("email" :> "str"),
            ("id" :> "str") @@ ("name" :> "str") @@ ("avatarURL" :> "str") @@ ("created" :> "str") @@ ("companyID" :> "str") @@ ("customFields" :> "value")))
    @@ ("delete_user" :>
          B(("apiKey" :> "str") @@ ("userID" :> "str"),
            NoParams))
    @@ ("find_user" :>
          B(("apiKey" :> "str"),
            ("userID" :> "str") @@ ("email" :> "str") @@ ("name" :> "str")))
    @@ ("remove_user_from_company" :>
          B(("apiKey" :> "str") @@ ("userID" :> "str") @@ ("companyID" :> "str"),
            NoParams))
    @@ ("list_boards" :>
          B(("apiKey" :> "str"),
            NoParams))
    @@ ("get_board" :>
          B(("apiKey" :> "str") @@ ("id" :> "str"),
            NoParams))
    @@ ("create_board" :>
          B(("apiKey" :> "str") @@ ("name" :> "str"),
            NoParams))
    @@ ("delete_board" :>
          B(("apiKey" :> "str") @@ ("id" :> "str"),
            NoParams))
    @@ ("list_tags" :>
          B(("apiKey" :> "str") @@ ("boardID" :> "str"),
            ("limit" :> "u32") @@ ("skip" :> "u32")))
    @@ ("get_tag" :>
          B(("apiKey" :> "str") @@ ("id" :> "str"),
            NoParams))
    @@ ("create_tag" :>
          B(("apiKey" :> "str") @@ ("boardID" :> "str") @@ ("name" :> "str"),
            NoParams))
    @@ ("delete_tag" :>
          B(("apiKey" :> "str") @@ ("tagID" :> "str"),
            NoParams))
    @@ ("list_companies" :>
          B(("apiKey" :> "str"),
            ("limit" :> "u32") @@ ("cursor" :> "str") @@ ("search" :> "str") @@ ("segment" :> "str")))
    @@ ("update_company" :>
          B(("apiKey" :> "str") @@ ("id" :> "str"),
            ("name" :> "str") @@ ("monthlySpend" :> "f64") @@ ("customFields" :> "value") @@ ("created" :> "str")))
    @@ ("delete_company" :>
          B(("apiKey" :> "str") @@ ("id" :> "str"),
            NoParams))
    @@ ("get_company" :>
          B(("apiKey" :> "str") @@ ("id" :> "str"),
            NoParams))
    @@ ("list_votes" :>
          B(("apiKey" :> "str"),
            ("postID" :> "str") @@ ("userID" :> "str") @@ ("limit" :> "u32") @@ ("skip" :> "u32")))
    @@ ("get_vote" :>
          B(("apiKey" :> "str") @@ ("id" :> "str"),
            NoParams))
    @@ ("create_vote" :>
          B(("apiKey" :> "str") @@ ("postID" :> "str") @@ ("userID" :> "str"),
            NoParams))
    @@ ("delete_vote" :>
          B(("apiKey" :> "str") @@ ("voteID" :> "str"),
            NoParams))
    @@ ("list_status_changes" :>
          B(("apiKey" :> "str") @@ ("boardID" :> "str"),
            ("limit" :> "u32") @@ ("skip" :> "u32")))
    @@ ("list_entries" :>
          B(("apiKey" :> "str"),
            ("limit" :> "u32") @@ ("skip" :> "u32") @@ ("type" :> "str") @@ ("labelIDs" :> "vec") @@ ("sort" :> "str")))
    @@ ("get_entry" :>
          B(("apiKey" :> "str") @@ ("id" :> "str"),
            NoParams))
    @@ ("delete_entry" :>
          B(("apiKey" :> "str") @@ ("entryID" :> "str"),
            NoParams))
    @@ ("create_entry" :>
          B(("apiKey" :> "str") @@ ("title" :> "str"),
            ("details" :> "str") @@ ("type" :> "str") @@ ("published" :> "bool") @@ ("notify" :> "bool") @@ ("postIDs" :> "vec") @@ ("labelIDs" :> "vec") @@ ("publishedOn" :> "str") @@ ("scheduledFor" :> "str")))
    @@ ("update_entry" :>
          B(("apiKey" :> "str") @@ ("entryID" :> "str"),
            ("title" :> "str") @@ ("details" :> "str") @@ ("type" :> "str") @@ ("published" :> "bool") @@ ("notify" :> "bool") @@ ("labelIDs" :> "vec")))
    @@ ("list_opportunities" :>
          B(("apiKey" :> "str") @@ ("postID" :> "str"),
            ("limit" :> "u32") @@ ("skip" :> "u32")))
    @@ ("list_groups" :>
          B(("apiKey" :> "str"),
            ("limit" :> "u32") @@ ("cursor" :> "str")))
    @@ ("get_group" :>
          B(("apiKey" :> "str"),
            ("id" :> "str") @@ ("urlName" :> "str")))
    @@ ("list_insights" :>
          B(("apiKey" :> "str"),
            ("limit" :> "u32") @@ ("cursor" :> "str") @@ ("ideaID" :> "str")))
    @@ ("get_insight" :>
          B(("apiKey" :> "str") @@ ("id" :> "str"),
            NoParams))
    @@ ("list_ideas" :>
          B(("apiKey" :> "str"),
            ("limit" :> "u32") @@ ("cursor" :> "str") @@ ("parentID" :> "str") @@ ("search" :> "str")))
    @@ ("get_idea" :>
          B(("apiKey" :> "str"),
            ("id" :> "str") @@ ("urlName" :> "str")))
    @@ ("enqueue_autopilot_feedback" :>
          B(("apiKey" :> "str") @@ ("feedback" :> "str") @@ ("userID" :> "str"),
            ("sourceURL" :> "str")))

\* An f64 argument: a finite number, or NaN.
Finite(x) == [finite |-> TRUE, x |-> x]
NaN == [finite |-> FALSE]

\* json!(v) for an argument of each parameter type.  A float that is not
\* finite has no JSON number: it is serialized as null.  A Value is moved
\* into the body as it is.
Json(type, v) ==
    CASE type = "str"   -> JStr(v)
      [] type = "u32"   -> JNum(v)
      [] type = "bool"  -> JBool(v)
      [] type = "vec"   -> JArr(Vec([i \in 1..Len(v) |-> JStr(v[i])]))
      [] type = "f64"   -> IF v.finite THEN JNum(v.x) ELSE JNull
      [] type = "value" -> v

\* The body a method builds: `given` is the values of its mandatory
\* parameters, `options` the values of its Option parameters that are Some.
BuildBody(method, given, options) ==
    LET b == BodyTable[method] IN
    [k \in DOMAIN b.mandatory \cup DOMAIN options |->
        IF k \in DOMAIN options THEN Json(b.optional[k], options[k])
        ELSE Json(b.mandatory[k], given[k])]

\* The request a method posts, with its body.
RequestWithBody(method, given, options) ==
    [endpoint |-> MethodTable[method].endpoint,
     base     |-> Base(method),
     body     |-> BuildBody(method, given, options)]

(***************************************************************************)
(* Credentials (src/src/credentials.rs).  The keychain is a collaborator:  *)
(* a store of entries, one for each account of the service, with           *)
(*   get(account)       the bytes of the entry, or an error when none      *)
(*   delete(account)    ok, or an error: no such entry, or the keychain    *)
(*                      failed (`fault`) and the entry is left as it was   *)
(*   set(account, data) ok, or an error: the keychain failed, or the       *)
(*                      entry exists and this keychain does not overwrite  *)
(***************************************************************************)
KEYCHAIN_ACCOUNT_API_KEY == "api-key"
KEYCHAIN_ACCOUNT_API_URL == "api-url"
Accounts == {KEYCHAIN_ACCOUNT_API_KEY, KEYCHAIN_ACCOUNT_API_URL, "default"}

DEFAULT_API_URL == "https://canny.io/api/v1"

\* str::as_bytes
AsBytes(s) == [utf8 |-> TRUE, s |-> s]
\* Bytes that are not the UTF-8 encoding of a string.
NotUtf8 == [utf8 |-> FALSE]
\* String::from_utf8(data.to_vec()).ok()
FromUtf8(data) == IF data.utf8 THEN Some(data.s) ELSE None

\* get_generic_password(KEYCHAIN_SERVICE, account)
GetGenericPassword(st, account) ==
    IF st[account].some THEN Ok(st[account].v) ELSE Err(Failure("item not found"))

\* delete_generic_password(KEYCHAIN_SERVICE, account): the store after the
\* call and its result.
DeleteGenericPassword(st, account, fault) ==
    IF fault THEN [store |-> st, result |-> Err(Failure("keychain failure"))]
    ELSE IF ~st[account].some
    THEN [store |-> st, result |-> Err(Failure("item not found"))]
    ELSE [store |-> [st EXCEPT ![account] = None], result |-> Ok("unit")]

\* set_generic_password(KEYCHAIN_SERVICE, account, data)
SetGenericPassword(st, account, data, fault, overwrites) ==
    IF fault THEN [store |-> st, result |-> Err(Failure("keychain failure"))]
    ELSE IF st[account].some /\ ~overwrites
    THEN [store |-> st, result |-> Err(Failure("duplicate item"))]
    ELSE [store |-> [st EXCEPT ![account] = Some(data)], result |-> Ok("unit")]

\* Option::ok()? on the result of the get, then from_utf8
GetStored(st, account) ==
    IF GetGenericPassword(st, account).ok
    THEN FromUtf8(GetGenericPassword(st, account).v)
    ELSE None

GetStoredApiKey(st) == GetStored(st, KEYCHAIN_ACCOUNT_API_KEY)
GetStoredApiUrl(st) == GetStored(st, KEYCHAIN_ACCOUNT_API_URL)

\* ResolveApiKey with the stored key preferred to the explicit one.
ResolveApiKeyStoredFirst(st, explicit_key) ==
    IF GetStoredApiKey(st).some THEN Ok(GetStoredApiKey(st).v)
    ELSE IF explicit_key.some THEN Ok(explicit_key.v)
    ELSE Err(Failure("API key not found"))

\* credentials::resolve_api_key
ResolveApiKey(st, explicit_key) ==
    IF explicit_key.some THEN Ok(explicit_key.v)
    ELSE IF GetStoredApiKey(st).some THEN Ok(GetStoredApiKey(st).v)
    ELSE Err(Failure("API key not found"))

\* ResolveApiUrl with the explicit URL used also when it is the default.
ResolveApiUrlExplicitFirst(st, explicit_url, default_url) ==
    IF explicit_url.some THEN Some(explicit_url.v)
    ELSE IF GetStoredApiUrl(st).some THEN Some(GetStoredApiUrl(st).v)
    ELSE None

\* credentials::resolve_api_url
ResolveApiUrl(st, explicit_url, default_url) ==
    IF explicit_url.some /\ explicit_url.v # default_url THEN Some(explicit_url.v)
    ELSE IF GetStoredApiUrl(st).some THEN Some(GetStoredApiUrl(st).v)
    ELSE None

\* What the keychain does in the calls of one function: `delete` and `set`
\* are the failures of the keychain, `overwrites` is whether its set
\* replaces an existing entry.
Faults == [delete : BOOLEAN, set : BOOLEAN, overwrites : BOOLEAN]

\* let _ = delete_generic_password(..); set_generic_password(..).map_err(..)
StoreEntry(st, account, value, io) ==
    LET deleted == DeleteGenericPassword(st, account, io.delete).store
    IN  SetGenericPassword(deleted, account, AsBytes(value), io.set, io.overwrites)

\* StoreApiKey without the delete before the set.
StoreApiKeyNoDelete(st, api_key, io) ==
    SetGenericPassword(st, KEYCHAIN_ACCOUNT_API_KEY, AsBytes(api_key), io.set,
                       io.overwrites)

\* StoreApiKey that puts the old entry back when the set fails.
StoreApiKeyRollback(st, api_key, io) ==
    LET stored == StoreEntry(st, KEYCHAIN_ACCOUNT_API_KEY, api_key, io)
    IN  IF stored.result.ok THEN stored ELSE [store |-> st, result |-> stored.result]

\* credentials::store_api_key
StoreApiKey(st, api_key, io) == StoreEntry(st, KEYCHAIN_ACCOUNT_API_KEY, api_key, io)

\* credentials::store_api_url
StoreApiUrl(st, api_url, io) == StoreEntry(st, KEYCHAIN_ACCOUNT_API_URL, api_url, io)

\* ClearStoredCredentials that fails when one of the two deletes failed.
ClearStoredCredentialsAnyError(st, failing) ==
    LET key == DeleteGenericPassword(st, KEYCHAIN_ACCOUNT_API_KEY,
                                     KEYCHAIN_ACCOUNT_API_KEY \in failing)
        url == DeleteGenericPassword(key.store, KEYCHAIN_ACCOUNT_API_URL,
                                     KEYCHAIN_ACCOUNT_API_URL \in failing)
        old == DeleteGenericPassword(url.store, "default", "default" \in failing)
    IN  [store  |-> old.store,
         result |-> IF ~key.result.ok \/ ~url.result.ok
                    THEN Err(Failure("No stored credentials to clear"))
                    ELSE Ok("unit")]

\* credentials::clear_stored_credentials: `failing` is the accounts whose
\* delete the keychain fails.
ClearStoredCredentials(st, failing) ==
    LET key == DeleteGenericPassword(st, KEYCHAIN_ACCOUNT_API_KEY,
                                     KEYCHAIN_ACCOUNT_API_KEY \in failing)
        url == DeleteGenericPassword(key.store, KEYCHAIN_ACCOUNT_API_URL,
                                     KEYCHAIN_ACCOUNT_API_URL \in failing)
        old == DeleteGenericPassword(url.store, "default", "default" \in failing)
    IN  [store  |-> old.store,
         result |-> IF ~key.result.ok /\ ~url.result.ok
                    THEN Err(Failure("No stored credentials to clear"))
                    ELSE Ok("unit")]

(***************************************************************************)
(* The client and the URL of its requests.  A URL is cut at the            *)
(* occurrences of "/v1": <<"https://canny.io/api", "/v1">>.                *)
(***************************************************************************)
PROXY_API_URL == "https://proxy/v1/canny/api/v1"

Chunks(url) ==
    CASE url = DEFAULT_API_URL -> <<"https://canny.io/api", "/v1">>
      [] url = PROXY_API_URL -> <<"https://proxy", "/v1", "/canny/api", "/v1">>
      [] OTHER -> <<url>>

RECURSIVE Join(_)
Join(chunks) == IF chunks = <<>> THEN "" ELSE chunks[1] \o Join(Tail(chunks))

\* str::replace(from, to): every occurrence is replaced
Replace(chunks, from, to) ==
    [i \in DOMAIN chunks |-> IF chunks[i] = from THEN to ELSE chunks[i]]

\* CannyClient::new
New(api_url, api_key) == [api_url |-> api_url, api_key |-> api_key]

\* The URL a method posts to, without the endpoint path.
BaseUrl(method, self) ==
    IF Base(method) = "api_url" THEN Chunks(self.api_url)
    ELSE Replace(Chunks(self.api_url), "/v1", "/v2")

\* SelfAfter with the v2 base URL kept in the client.
SelfAfterRebased(method, self) ==
    [self EXCEPT !.api_url = Join(BaseUrl(method, self))]

\* The client after a call of a method: every method takes `&self`.
SelfAfter(method, self) == self

(***************************************************************************)
(* The commands of the CLI (main.rs), one handler arm each.                *)
(*   method: the endpoint method the arm calls                             *)
(*   kind:   "list", "users" (users list), "get", "create", "unit"         *)
(*   hint:   the next-page hint a list arm prints: "skip", "cursor", "none"*)
(*   ids:    the identifying arguments of which one must be given          *)
(*   custom_fields: the arm parses a --custom-fields JSON argument         *)
(***************************************************************************)
C(method, kind, hint, ids, custom_fields) ==
    [method |-> method, kind |-> kind, hint |-> hint, ids |-> ids,
     custom_fields |-> custom_fields]

CommandTable ==
       ("posts list" :> C("list_posts", "list", "skip", {}, FALSE))
    @@ ("posts get" :> C("get_post", "get", "", {"id", "url_name"}, FALSE))
    @@ ("posts create" :> C("create_post", "create", "", {}, TRUE))
    @@ ("posts status" :> C("change_post_status", "unit", "", {}, FALSE))
    @@ ("posts category" :> C("change_post_category", "unit", "", {}, FALSE))
    @@ ("posts update" :> C("update_post", "unit", "", {}, TRUE))
    @@ ("posts delete" :> C("delete_post", "unit", "", {}, FALSE))
    @@ ("posts add-tag" :> C("add_post_tag", "unit", "", {}, FALSE))
    @@ ("posts remove-tag" :> C("remove_post_tag", "unit", "", {}, FALSE))
    @@ ("posts link-jira" :> C("link_post_jira", "unit", "", {}, FALSE))
    @@ ("posts unlink-jira" :> C("unlink_post_jira", "unit", "", {}, FALSE))
    @@ ("comments list" :> C("list_comments", "list", "skip", {}, FALSE))
    @@ ("comments create" :> C("create_comment", "create", "", {}, FALSE))
    @@ ("comments get" :> C("get_comment", "get", "", {}, FALSE))
    @@ ("comments delete" :> C("delete_comment", "unit", "", {}, FALSE))
    @@ ("categories list" :> C("list_categories", "list", "none", {}, FALSE))
    @@ ("categories get" :> C("get_category", "get", "", {}, FALSE))
    @@ ("categories create" :> C("create_category", "create", "", {}, FALSE))
    @@ ("categories delete" :> C("delete_category", "unit", "", {}, FALSE))
    @@ ("users list" :> C("list_users", "users", "", {}, FALSE))
    @@ ("users get" :> C("get_user", "get", "", {"id", "email"}, FALSE))
    @@ ("users create" :> C("create_or_update_user", "create", "", {}, TRUE))
    @@ ("users delete" :> C("delete_user", "unit", "", {}, FALSE))
    @@ ("users find" :> C("find_user", "get", "", {"user_id", "email", "name"}, FALSE))
    @@ ("users remove-from-company" :> C("remove_user_from_company", "unit", "", {}, FALSE))
    @@ ("boards list" :> C("list_boards", "list", "none", {}, FALSE))
    @@ ("boards get" :> C("get_board", "get", "", {}, FALSE))
    @@ ("boards create" :> C("create_board", "create", "", {}, FALSE))
    @@ ("boards delete" :> C("delete_board", "unit", "", {}, FALSE))
    @@ ("tags list" :> C("list_tags", "list", "skip", {}, FALSE))
    @@ ("tags get" :> C("get_tag", "get", "", {}, FALSE))
    @@ ("tags create" :> C("create_tag", "create", "", {}, FALSE))
    @@ ("tags delete" :> C("delete_tag", "unit", "", {}, FALSE))
    @@ ("companies list" :> C("list_companies", "list", "cursor", {}, FALSE))
    @@ ("companies update" :> C("update_company", "unit", "", {}, TRUE))
    @@ ("companies get" :> C("get_company", "get", "", {}, FALSE))
    @@ ("companies delete" :> C("delete_company", "unit", "", {}, FALSE))
    @@ ("votes list" :> C("list_votes", "list", "skip", {}, FALSE))
    @@ ("votes get" :> C("get_vote", "get", "", {}, FALSE))
    @@ ("votes create" :> C("create_vote", "unit", "", {}, FALSE))
    @@ ("votes delete" :> C("delete_vote", "unit", "", {}, FALSE))
    @@ ("status-changes list" :> C("list_status_changes", "list", "skip", {}, FALSE))
    @@ ("changelog list" :> C("list_entries", "list", "skip", {}, FALSE))
    @@ ("changelog create" :> C("create_entry", "create", "", {}, FALSE))
    @@ ("changelog get" :> C("get_entry", "get", "", {}, FALSE))
    @@ ("changelog delete" :> C("delete_entry", "unit", "", {}, FALSE))
    @@ ("changelog update" :> C("update_entry", "unit", "", {}, FALSE))
    @@ ("opportunities list" :> C("list_opportunities", "list", "skip", {}, FALSE))
    @@ ("groups list" :> C("list_groups", "list", "cursor", {}, FALSE))
    @@ ("groups get" :> C("get_group", "get", "", {"id", "url_name"}, FALSE))
    @@ ("insights list" :> C("list_insights", "list", "cursor", {}, FALSE))
    @@ ("insights get" :> C("get_insight", "get", "", {}, FALSE))
    @@ ("ideas list" :> C("list_ideas", "list", "cursor", {}, FALSE))
    @@ ("ideas get" :> C("get_idea", "get", "", {"id", "url_name"}, FALSE))
    @@ ("autopilot enqueue" :> C("enqueue_autopilot_feedback", "create", "", {}, FALSE))

Commands == DOMAIN CommandTable

\* The endpoint method whose requests a command's handler issues:
\* list_users issues its requests through fetch_users_page.
Calls(c) ==
    IF CommandTable[c].method = "list_users" THEN "fetch_users_page"
    ELSE CommandTable[c].method

\* The commands with --skip and --limit: their method decodes a list
\* response without a cursor.
OffsetPaged(c) ==
    /\ CommandTable[c].kind = "list"
    /\ MethodTable[CommandTable[c].method].decode = "list"

(***************************************************************************)
(* The servers of the model: the bodies a response may carry.              *)
(***************************************************************************)
RecordJson(type, id) == JObj([f \in RequiredFields(type) |-> JStr(id)])
UserJson(id) == RecordJson("CannyUserFull", id)

\* The pages of users a server may put in a response.
Pages ==
    { Vec(<<>>),
      Vec(<<UserJson("A"), UserJson("B")>>),
      Vec(<<UserJson("C")>>) }

Cursors == {"c1", "c2"}

HasNextFields ==
    {NoFields, "hasNextPage" :> JBool(TRUE), "hasNextPage" :> JBool(FALSE),
     "hasNextPage" :> JStr("true")}

CursorFields ==
    {NoFields, "cursor" :> JNull} \cup {"cursor" :> JStr(c) : c \in Cursors}

\* The payload of a v2 list response: under `items`, under the legacy key,
\* under both, under neither, or not a list of records.
PayloadFields(legacy, pages, first, second) ==
    {NoFields}
      \cup {"items" :> JArr(p) : p \in pages}
      \cup {legacy :> JArr(p) : p \in pages}
      \cup {("items" :> JArr(first)) @@ (legacy :> JArr(second)),
            "items" :> JNull,
            "items" :> JArr(Vec(<<JObj(NoFields)>>))}

CommonBodies ==
    {NotJson, JNull, JArr(Vec(<<>>)), JArr(Vec(<<JNull>>)), JObj(NoFields)}

\* The lists of records in the list responses of the other endpoints.
ItemLists(type) ==
    { Vec(<<>>),
      Vec(<<RecordJson(type, "r1"), RecordJson(type, "r2")>>),
      Vec(<<JObj(NoFields)>>) }

Bodies(method) ==
    LET m == MethodTable[method] IN
    CommonBodies \cup
    CASE m.decode = "list" ->
           {JObj(("hasMore" :> JBool(b)) @@ (m.key :> JArr(l))) :
               b \in BOOLEAN, l \in ItemLists(m.item)}
             \cup {JObj(m.key :> JArr(<<>>))}
      [] m.decode = "list_cursor" ->
           {JObj(("hasMore" :> JBool(b)) @@ (m.key :> JArr(l)) @@ c) :
               b \in BOOLEAN, l \in ItemLists(m.item),
               c \in {NoFields, "cursor" :> JNull, "cursor" :> JStr("c1")}}
      [] m.decode = "retrieve" ->
           {JObj(m.key :> v) : v \in {JNull, RecordJson(m.item, "r1"), JObj(NoFields)}}
      [] m.decode = "user" ->
           {RecordJson(m.item, "r1"), JObj("error" :> JStr("invalid id"))}
      [] m.decode = "create" ->
           {JObj("id" :> JStr("r1")), JObj("id" :> JNull)}
      [] m.decode = "boards" ->
           {JObj(m.key :> JArr(l)) : l \in ItemLists(m.item)}
      [] m.decode = "companies" ->
           {JObj(p @@ h @@ c) :
               p \in PayloadFields(m.key, ItemLists(m.item),
                                    Vec(<<RecordJson(m.item, "r1")>>),
                                    Vec(<<RecordJson(m.item, "r2")>>)),
               h \in HasNextFields,
               c \in {NoFields, "cursor" :> JStr("c1")}}
      [] m.decode = "users" ->
           {JObj(p @@ h @@ c) :
               p \in PayloadFields(m.key, Pages, Vec(<<UserJson("C")>>),
                                    Vec(<<UserJson("A"), UserJson("B")>>)),
               h \in HasNextFields,
               c \in CursorFields}
      [] OTHER -> {JObj("success" :> JBool(TRUE))}

\* A body that the method decodes to a result, had the status been 2xx.
SuccessBody(method) ==
    LET m == MethodTable[method] IN
    CASE m.decode \in {"list", "list_cursor"} ->
           JObj(("hasMore" :> JBool(TRUE))
                  @@ (m.key :> JArr(Vec(<<RecordJson(m.item, "r1")>>))))
      [] m.decode = "retrieve" -> JObj(m.key :> RecordJson(m.item, "r1"))
      [] m.decode = "user" -> RecordJson(m.item, "r1")
      [] m.decode = "create" -> JObj("id" :> JStr("r1"))
      [] m.decode = "boards" ->
           JObj(m.key :> JArr(Vec(<<RecordJson(m.item, "r1")>>)))
      [] m.decode \in {"companies", "users"} ->
           JObj(("items" :> JArr(Vec(<<RecordJson(m.item, "C")>>)))
                  @@ ("hasNextPage" :> JBool(TRUE)) @@ ("cursor" :> JStr("c1")))
      [] OTHER -> JObj("success" :> JBool(TRUE))

\* The bodies of the responses whose status is not 200.
EdgeBodies(method) ==
    {NotJson, JNull, JObj("error" :> JStr("invalid id")), SuccessBody(method)}

EdgeStatuses == {299, 300, 404}

\* What the transport may answer to a request of the method.
Outcomes(method) ==
    {SendError, TextError(200), TextError(404)}
      \cup {Response(200, t) : t \in Bodies(method)}
      \cup {Response(s, t) : s \in EdgeStatuses, t \in EdgeBodies(method)}

\* The arguments of the model's invocations.
SkipValues == {U32(0, 0), U32(0, 10), U32Max}
LimitValues == {U32(0, 10), U32(0, 100), U32Max}

Args(c) ==
    [skip  : IF OffsetPaged(c) THEN SkipValues ELSE {U32(0, 0)},
     limit : IF OffsetPaged(c) THEN LimitValues ELSE {U32(0, 10)},
     given : IF CommandTable[c].ids = {} THEN {{}} ELSE SUBSET CommandTable[c].ids,
     custom_fields : IF CommandTable[c].custom_fields
                     THEN {"absent", "json", "garbage"}
                     ELSE {"absent"}]

\* The arguments of the model's method calls, for each parameter type.
ArgValues(type) ==
    CASE type = "str"   -> {"v"}
      [] type = "u32"   -> {10}
      [] type = "bool"  -> {TRUE}
      [] type = "vec"   -> {<<"v">>}
      [] type = "f64"   -> {Finite(10), NaN}
      [] type = "value" -> {JObj("plan" :> JStr("pro")), JNull}

\* The values of the mandatory parameters of a method.
MandatoryArgs(method) ==
    [k \in DOMAIN BodyTable[method].mandatory |->
        IF k = "apiKey" THEN "api_key"
        ELSE CHOOSE v \in ArgValues(BodyTable[method].mandatory[k]) : TRUE]

\* The values of the Option parameters that are Some, for every choice of
\* the parameters `keys` of a method.
RECURSIVE OptionalArgs(_, _)
OptionalArgs(method, keys) ==
    IF keys = {} THEN {[k \in {} |-> "v"]}
    ELSE LET key == CHOOSE k \in keys : TRUE
             rest == OptionalArgs(method, keys \ {key})
         IN  rest \cup {o @@ (key :> v) :
                          o \in rest, v \in ArgValues(BodyTable[method].optional[key])}

\* The keychains of the model and the arguments of the credential calls.
KeyValues == {"k1", "k2"}
UrlValues == {"u1", DEFAULT_API_URL}

Stores ==
    {(KEYCHAIN_ACCOUNT_API_KEY :> k) @@ (KEYCHAIN_ACCOUNT_API_URL :> u) @@ ("default" :> d) :
        k \in {None, Some(NotUtf8)} \cup {Some(AsBytes(v)) : v \in KeyValues},
        u \in {None, Some(NotUtf8)} \cup {Some(AsBytes(v)) : v \in UrlValues},
        d \in {None, Some(AsBytes("k0"))}}

ExplicitKeys == {None, Some("k1"), Some("k3")}
ExplicitUrls == {None, Some("u2"), Some(DEFAULT_API_URL)}

(***************************************************************************)
(* State.                                                                  *)
(***************************************************************************)
VARIABLES
    cmd,          \* the command of this invocation
    args,         \* its arguments
    json_output,  \* --json
    pc,           \* where the handler is: "start", "loop", "await", "exit"
    requests,     \* the requests issued so far, in order
    inflight,     \* the requests awaiting their response
    all_users,    \* list_users: the accumulator
    cursor,       \* list_users: the cursor of the next request
    progress,     \* the values the progress callback was called with
    response,     \* what the transport answered to the last request: None before
    fetch_log,    \* the results of the endpoint method calls so far, in order
    returned,     \* what list_users returned: None while it has not
    result,       \* what the handler returned: None while it has not
    stdout,       \* what the handler printed
    stderr,       \* what was printed on stderr
    exit_code,    \* the exit code of the process: -1 while it runs
    store,        \* the keychain: the entry of each account, or None
    credential_call, \* the last call of a function of credentials.rs: None before
    client        \* the CannyClient of the invocation: None while there is none

vars == <<cmd, args, json_output, pc, requests, inflight, all_users, cursor,
          progress, response, fetch_log, returned, result, stdout, stderr,
          exit_code, store, credential_call, client>>

\* The variables of the keychain, and those of the invocation.
credvars == <<store, credential_call>>
clientvars == <<cmd, args, json_output, pc, requests, inflight, all_users, cursor,
                progress, response, fetch_log, returned, result, stdout, stderr,
                exit_code, client>>

\* main: a handler that returns Err ends the process with code 1 and the
\* error on stderr; one that returns Ok(()) ends it with code 0.
Return(res, printed) ==
    /\ result' = Some(res)
    /\ stdout' = stdout \o printed
    /\ stderr' = IF res.ok THEN stderr ELSE Append(stderr, [line |-> "Error", e |-> res.e])
    /\ exit_code' = IF res.ok THEN 0 ELSE 1
    /\ pc' = "exit"

\* std::process::exit(1) after a not-found message: the handler does not return.
ExitNotFound ==
    /\ stderr' = Append(stderr, [line |-> "not found"])
    /\ exit_code' = 1
    /\ pc' = "exit"
    /\ UNCHANGED <<result, stdout>>

\* A panic (an arithmetic overflow with overflow checks on): code 101.
Panic(printed) ==
    /\ stdout' = stdout \o printed
    /\ stderr' = Append(stderr, [line |-> "panicked: attempt to add with overflow"])
    /\ exit_code' = 101
    /\ pc' = "exit"
    /\ UNCHANGED result

(***************************************************************************)
(* users list: handle_users calls list_users.                              *)
(***************************************************************************)
\* handle_users passes a callback exactly in text mode (main.rs:2214-2223)
OnProgress == ~json_output

\* handle_users, UsersCommands::List, after list_users returned Ok(users)
PrintUsers(users) ==
    IF json_output THEN <<[line |-> "json", items |-> users]>>
    ELSE IF users = <<>> THEN <<[line |-> "none found"]>>
    ELSE <<[line |-> "items", items |-> users]>>

ListUsersCall ==
    /\ cmd = "users list"
    /\ UNCHANGED <<credvars, client>>
    /\ pc = "start"
    /\ all_users' = <<>>
    /\ cursor' = None
    /\ pc' = "loop"
    /\ UNCHANGED <<cmd, args, json_output, requests, inflight, progress, response,
                   fetch_log, returned, result, stdout, stderr, exit_code>>

\* ListUsersSend with the next request sent while the last one is still
\* awaited.
ListUsersSendPipelined(cap) ==
    /\ cmd = "users list"
    /\ UNCHANGED <<credvars, client>>
    /\ pc \in {"loop", "await"}
    /\ Len(requests) < cap
    /\ requests' = Append(requests, UsersPageRequest(cursor, PageLimit))
    /\ inflight' = inflight \cup {Len(requests) + 1}
    /\ pc' = "await"
    /\ UNCHANGED <<cmd, args, json_output, all_users, cursor, progress, response,
                   fetch_log, returned, result, stdout, stderr, exit_code>>

\* The top of the loop: fetch_users_page sends its request.
ListUsersSend(cap) ==
    /\ cmd = "users list"
    /\ UNCHANGED <<credvars, client>>
    /\ pc = "loop"
    /\ Len(requests) < cap
    /\ requests' = Append(requests, UsersPageRequest(cursor, PageLimit))
    /\ inflight' = inflight \cup {Len(requests) + 1}
    /\ pc' = "await"
    /\ UNCHANGED <<cmd, args, json_output, all_users, cursor, progress, response,
                   fetch_log, returned, result, stdout, stderr, exit_code>>

\* list_users returns to handle_users, which prints the users or
\* propagates the error.
ListUsersReturn(res) ==
    /\ returned' = Some(res)
    /\ IF res.ok THEN Return(Ok("unit"), PrintUsers(res.v)) ELSE Return(res, <<>>)

\* Propagate with the error swallowed and the partial result returned.
PropagatePartial(err, acc) == Ok(acc)

\* `?` on the result of fetch_users_page: the error is what list_users returns.
Propagate(err, acc) == err

\* PageIsEmpty with the check left out.
PageIsEmptyNever(users) == FALSE

\* if users.is_empty() { break; }
PageIsEmpty(users) == users = <<>>

\* Extend with the accumulator replaced by the page.
ExtendReplace(acc, users) == users

\* Extend with the records the accumulator already holds left out.
ExtendDedup(acc, users) ==
    LET fresh == SelectSeq(users, LAMBDA r : \A i \in 1..Len(acc) : acc[i].x # r.x)
        RECURSIVE Joined(_)
        Joined(runs) ==
            IF runs = <<>> THEN <<>>
            ELSE VecConcat(Joined(SubSeq(runs, 1, Len(runs) - 1)), <<runs[Len(runs)]>>)
    IN VecConcat(acc, Joined(fresh))

\* all_users.extend(users)
Extend(acc, users) == VecConcat(acc, users)

\* Notify with the callback called before the extend.
NotifyBeforeExtend(prog, acc, users) ==
    IF OnProgress THEN Append(prog, VecLen(acc)) ELSE prog

\* Notify with the length of the page given to the callback.
NotifyPageLen(prog, acc, users) ==
    IF OnProgress THEN Append(prog, VecLen(users)) ELSE prog

\* if let Some(ref cb) = on_progress { cb(all_users.len()); }, after the extend
Notify(prog, acc, users) ==
    IF OnProgress THEN Append(prog, VecLen(Extend(acc, users))) ELSE prog

\* if !has_next || next_cursor.is_none() { break; }
LoopEnds(page) == ~page.has_next \/ ~page.next_cursor.some

\* OverCeiling with a zero too many in the literal.
OverCeilingTenfold(acc) == VecLen(acc) > 10 * SafetyLimit

\* if all_users.len() > 100000 { break; }
OverCeiling(acc) == VecLen(acc) > SafetyLimit

\* The rest of one loop iteration, from the response on.
ListUsersReceive(outcome) ==
    /\ cmd = "users list"
    /\ UNCHANGED <<credvars, client>>
    /\ pc = "await"
    /\ inflight' = inflight \ {Len(requests)}
    /\ response' = Some(outcome)
    /\ LET page == FetchUsersPage(outcome) IN
       /\ fetch_log' = Append(fetch_log, page)
       /\ IF ~page.ok
          THEN /\ ListUsersReturn(Propagate(page, all_users))
               /\ UNCHANGED <<all_users, cursor, progress>>
          ELSE IF PageIsEmpty(page.v.users)
          THEN /\ ListUsersReturn(Ok(all_users))
               /\ UNCHANGED <<all_users, cursor, progress>>
          ELSE LET acc == Extend(all_users, page.v.users) IN
               /\ all_users' = acc
               /\ progress' = Notify(progress, all_users, page.v.users)
               /\ IF LoopEnds(page.v)
                  THEN /\ ListUsersReturn(Ok(acc))
                       /\ UNCHANGED cursor
                  ELSE /\ cursor' = page.v.next_cursor
                       /\ IF OverCeiling(acc)
                          THEN ListUsersReturn(Ok(acc))
                          ELSE /\ pc' = "loop"
                               /\ UNCHANGED <<returned, result, stdout, stderr, exit_code>>
    /\ UNCHANGED <<cmd, args, json_output, requests>>

(***************************************************************************)
(* The other commands: one endpoint method call each.                      *)
(***************************************************************************)
\* ValidationError with the custom-fields argument not parsed before the
\* call.
ValidationErrorIdsOnly(c, a) ==
    IF CommandTable[c].ids # {} /\ a.given \cap CommandTable[c].ids = {}
    THEN Some(Failure("an identifying argument must be provided"))
    ELSE None

\* The checks a handler arm makes before it calls the client.
ValidationError(c, a) ==
    IF CommandTable[c].ids # {} /\ a.given \cap CommandTable[c].ids = {}
    THEN Some(Failure("an identifying argument must be provided"))
    ELSE IF CommandTable[c].custom_fields /\ a.custom_fields = "garbage"
    THEN Some(Failure("Invalid JSON for custom fields"))
    ELSE None

CommandReject ==
    /\ cmd # "users list"
    /\ UNCHANGED <<credvars, client>>
    /\ pc = "start"
    /\ ValidationError(cmd, args).some
    /\ Return(Err(ValidationError(cmd, args).v), <<>>)
    /\ UNCHANGED <<cmd, args, json_output, requests, inflight, all_users, cursor,
                   progress, response, fetch_log, returned>>

CommandSend ==
    /\ cmd # "users list"
    /\ UNCHANGED <<credvars, client>>
    /\ pc = "start"
    /\ ~ValidationError(cmd, args).some
    /\ requests' = Append(requests, Request(CommandTable[cmd].method))
    /\ inflight' = inflight \cup {Len(requests) + 1}
    /\ pc' = "await"
    /\ UNCHANGED <<cmd, args, json_output, all_users, cursor, progress, response,
                   fetch_log, returned, result, stdout, stderr, exit_code>>

\* Whether a list arm finds more to fetch in the response.
HasMore(c, v) ==
    IF CommandTable[c].method = "list_companies" THEN UnwrapOrFalse(v.has_next_page)
    ELSE IF CommandTable[c].method = "list_boards" THEN FALSE
    ELSE v.has_more

\* What a list arm prints before the hint.
PrintItems(items) ==
    IF json_output THEN <<[line |-> "json", items |-> items]>>
    ELSE IF items = <<>> THEN <<[line |-> "none found"]>>
    ELSE <<[line |-> "items", items |-> items]>>

\* The arm reaches the code that prints a hint.
HintReached(c, v) ==
    ~json_output /\ v.items # <<>> /\ HasMore(c, v)

\* ListArm that goes back for the next page while the server has more.
ListArmRefetch(c, v, overflow_checks) ==
    IF HasMore(c, v)
    THEN /\ pc' = "start"
         /\ UNCHANGED <<result, stdout, stderr, exit_code>>
    ELSE Return(Ok("unit"), PrintItems(v.items))

\* A list arm, from the Ok(response) of its method on.
ListArm(c, v, overflow_checks) ==
    IF HintReached(c, v) /\ CommandTable[c].hint = "skip"
    THEN IF Overflows(args.skip, args.limit) /\ overflow_checks
         THEN Panic(PrintItems(v.items))
         ELSE Return(Ok("unit"),
                     PrintItems(v.items)
                       \o <<[line |-> "hint", skip |-> WrappingAdd(args.skip, args.limit)]>>)
    ELSE IF HintReached(c, v) /\ CommandTable[c].hint = "cursor" /\ v.cursor.some
    THEN Return(Ok("unit"),
                PrintItems(v.items) \o <<[line |-> "hint", cursor |-> v.cursor.v]>>)
    ELSE Return(Ok("unit"), PrintItems(v.items))

\* GetArm with the missing resource returned as an error of the handler.
GetArmThrows(v) ==
    IF v.some THEN Return(Ok("unit"), <<[line |-> "detail", record |-> v.v]>>)
    ELSE Return(Err(Failure("not found")), <<>>)

\* A get or find arm, from the Ok(option) of its method on.
GetArm(v) ==
    IF v.some THEN Return(Ok("unit"), <<[line |-> "detail", record |-> v.v]>>)
    ELSE ExitNotFound

\* The handler arm from the response on.  `overflow_checks` is what the
\* build does on an arithmetic overflow: panic, or wrap.
CommandReceive(outcome, overflow_checks) ==
    /\ cmd # "users list"
    /\ UNCHANGED <<credvars, client>>
    /\ pc = "await"
    /\ inflight' = inflight \ {Len(requests)}
    /\ response' = Some(outcome)
    /\ fetch_log' = Append(fetch_log, MethodResult(CommandTable[cmd].method, outcome))
    /\ LET res == MethodResult(CommandTable[cmd].method, outcome)
           kind == CommandTable[cmd].kind
       IN  IF ~res.ok THEN Return(res, <<>>)
           ELSE IF kind = "list" THEN ListArm(cmd, res.v, overflow_checks)
           ELSE IF kind = "get" THEN GetArm(res.v)
           ELSE IF kind = "create" THEN Return(Ok("unit"), <<[line |-> "created", id |-> res.v]>>)
           ELSE Return(Ok("unit"), <<[line |-> "success"]>>)
    /\ UNCHANGED <<cmd, args, json_output, requests, all_users, cursor, progress,
                   returned>>

(***************************************************************************)
(* Specification: one invocation of any command against any server.        *)
(***************************************************************************)
Init ==
    /\ cmd \in Commands
    /\ args \in Args(cmd)
    /\ json_output \in BOOLEAN
    /\ pc = "start"
    /\ requests = <<>>
    /\ inflight = {}
    /\ all_users = <<>>
    /\ cursor = None
    /\ progress = <<>>
    /\ response = None
    /\ fetch_log = <<>>
    /\ returned = None
    /\ result = None
    /\ stdout = <<>>
    /\ stderr = <<>>
    /\ exit_code = -1
    /\ store \in {st \in Stores : ResolveApiKey(st, None) = Ok("k1")
                                 /\ ~st[KEYCHAIN_ACCOUNT_API_URL].some /\ ~st["default"].some}
    /\ credential_call = None
    /\ client = Some(New(DEFAULT_API_URL, ResolveApiKey(store, None).v))

Next ==
    \/ ListUsersCall
    \/ ListUsersSend(MaxFetches)
    \/ \E outcome \in Outcomes("fetch_users_page") : ListUsersReceive(outcome)
    \/ CommandReject
    \/ CommandSend
    \/ \E outcome \in Outcomes(Calls(cmd)) :
          \E overflow_checks \in BOOLEAN : CommandReceive(outcome, overflow_checks)

Spec == Init /\ [][Next]_vars

(***************************************************************************)
(* Specification: users list against a server whose pages all have the     *)
(* same size, up to the safety ceiling and beyond: the server that never   *)
(* ends (every response is a non-empty page with hasNextPage=true and a    *)
(* cursor), and the servers that answer some page with other hasNextPage   *)
(* and cursor fields.                                                      *)
(***************************************************************************)
BulkSizes ==
    {PageLimit - 1, PageLimit, 10 * PageLimit, 50000, SafetyLimit, SafetyLimit + 1}

\* A page of n records.
BulkPage(n) == <<Run(UserJson("A"), n)>>

EndlessOutcome(n) ==
    Response(200, JObj(("items" :> JArr(BulkPage(n)))
                         @@ ("hasNextPage" :> JBool(TRUE))
                         @@ ("cursor" :> JStr("c1"))))

ListUsersReceiveEndless ==
    \E n \in BulkSizes :
       /\ fetch_log # <<>> => VecLen(fetch_log[1].v.users) = n
       /\ ListUsersReceive(EndlessOutcome(n))

\* The cursor fields of the bulk pages: none, null, a number, a string.
BulkCursorFields ==
    {NoFields, "cursor" :> JNull, "cursor" :> JNum(7), "cursor" :> JStr("c1")}

\* A page of n records with any hasNextPage and cursor fields.
BulkOutcome(n, h, c) ==
    Response(200, JObj(("items" :> JArr(BulkPage(n))) @@ h @@ c))

ListUsersReceiveBulk ==
    \E n \in BulkSizes, h \in HasNextFields, c \in BulkCursorFields :
       /\ fetch_log # <<>> => VecLen(fetch_log[1].v.users) = n
       /\ ListUsersReceive(BulkOutcome(n, h, c))

InitCeiling ==
    /\ Init
    /\ cmd = "users list"
    /\ ~json_output

NextCeiling ==
    \/ ListUsersCall
    \/ ListUsersSend(MaxCeilingFetches)
    \/ ListUsersReceiveEndless
    \/ ListUsersReceiveBulk

SpecCeiling == InitCeiling /\ [][NextCeiling]_vars

(***************************************************************************)
(* Specification: the request of every endpoint method, for every choice   *)
(* of its Option parameters.                                               *)
(***************************************************************************)
InitRequest ==
    /\ cmd \in Commands
    /\ args \in [given   : {MandatoryArgs(Calls(cmd))},
                 options : OptionalArgs(Calls(cmd), DOMAIN BodyTable[Calls(cmd)].optional)]
    /\ json_output = FALSE
    /\ pc = "start"
    /\ requests = <<>>
    /\ inflight = {}
    /\ all_users = <<>>
    /\ cursor = None
    /\ progress = <<>>
    /\ response = None
    /\ fetch_log = <<>>
    /\ returned = None
    /\ result = None
    /\ stdout = <<>>
    /\ stderr = <<>>
    /\ exit_code = -1
    /\ store \in {st \in Stores : ResolveApiKey(st, None) = Ok("k1")
                                 /\ ~st[KEYCHAIN_ACCOUNT_API_URL].some /\ ~st["default"].some}
    /\ credential_call = None
    /\ client = Some(New(DEFAULT_API_URL, ResolveApiKey(store, None).v))

\* An endpoint method, up to `.send()`.
BuildRequest ==
    /\ pc = "start"
    /\ UNCHANGED <<credvars, client>>
    /\ requests' = Append(requests, RequestWithBody(Calls(cmd), args.given, args.options))
    /\ inflight' = inflight \cup {Len(requests) + 1}
    /\ pc' = "await"
    /\ UNCHANGED <<cmd, args, json_output, all_users, cursor, progress, response,
                   fetch_log, returned, result, stdout, stderr, exit_code>>

NextRequest == BuildRequest

SpecRequest == InitRequest /\ [][NextRequest]_vars

(***************************************************************************)
(* Specification: the functions of credentials.rs, called in any order on  *)
(* any keychain.                                                           *)
(***************************************************************************)
InitCredentials ==
    /\ store \in Stores
    /\ credential_call = None
    /\ client = None
    /\ cmd = "auth"
    /\ args = <<>>
    /\ json_output = FALSE
    /\ pc = "start"
    /\ requests = <<>>
    /\ inflight = {}
    /\ all_users = <<>>
    /\ cursor = None
    /\ progress = <<>>
    /\ response = None
    /\ fetch_log = <<>>
    /\ returned = None
    /\ result = None
    /\ stdout = <<>>
    /\ stderr = <<>>
    /\ exit_code = -1

\* A call: the function, its arguments, the keychain before it, its result.
Call(op, arg, io, res) ==
    Some([op |-> op, arg |-> arg, io |-> io, before |-> store, result |-> res])

CallResolveApiKey ==
    \E explicit_key \in ExplicitKeys :
       /\ credential_call' =
             Call("resolve_api_key", explicit_key, {}, ResolveApiKey(store, explicit_key))
       /\ UNCHANGED <<store, clientvars>>

CallResolveApiUrl ==
    \E explicit_url \in ExplicitUrls :
       /\ credential_call' =
             Call("resolve_api_url", explicit_url, {},
                  ResolveApiUrl(store, explicit_url, DEFAULT_API_URL))
       /\ UNCHANGED <<store, clientvars>>

CallStoreApiKey ==
    \E api_key \in KeyValues, io \in Faults :
       /\ store' = StoreApiKey(store, api_key, io).store
       /\ credential_call' =
             Call("store_api_key", api_key, io, StoreApiKey(store, api_key, io).result)
       /\ UNCHANGED clientvars

CallStoreApiUrl ==
    \E api_url \in UrlValues, io \in Faults :
       /\ store' = StoreApiUrl(store, api_url, io).store
       /\ credential_call' =
             Call("store_api_url", api_url, io, StoreApiUrl(store, api_url, io).result)
       /\ UNCHANGED clientvars

CallClearStoredCredentials ==
    \E failing \in SUBSET Accounts :
       /\ store' = ClearStoredCredentials(store, failing).store
       /\ credential_call' =
             Call("clear_stored_credentials", <<>>, failing,
                  ClearStoredCredentials(store, failing).result)
       /\ UNCHANGED clientvars

NextCredentials ==
    \/ CallResolveApiKey
    \/ CallResolveApiUrl
    \/ CallStoreApiKey
    \/ CallStoreApiUrl
    \/ CallClearStoredCredentials

SpecCredentials == InitCredentials /\ [][NextCredentials]_vars

(***************************************************************************)
(* Specification: any sequence of endpoint calls on one client.            *)
(***************************************************************************)
ClientUrls == {DEFAULT_API_URL, PROXY_API_URL, "u1"}

\* The methods called: the two that post to v2, and v1 methods of each
\* kind of handler arm.
ClientMethods ==
    {"fetch_users_page", "list_companies", "list_boards", "get_user",
     "list_posts", "create_post", "delete_post"}

ClientOutcomes(method) == {SendError, Response(200, SuccessBody(method))}

InitClient ==
    /\ cmd = "client"
    /\ args \in [api_url : ClientUrls, api_key : {"k1"}]
    /\ client = Some(New(args.api_url, args.api_key))
    /\ json_output = FALSE
    /\ pc = "start"
    /\ requests = <<>>
    /\ inflight = {}
    /\ all_users = <<>>
    /\ cursor = None
    /\ progress = <<>>
    /\ response = None
    /\ fetch_log = <<>>
    /\ returned = None
    /\ result = None
    /\ stdout = <<>>
    /\ stderr = <<>>
    /\ exit_code = -1
    /\ store \in {st \in Stores : \A a \in DOMAIN st : ~st[a].some}
    /\ credential_call = None

\* One call of an endpoint method, from its request to its result.
ClientCall(method, outcome) ==
    /\ cmd = "client"
    /\ Len(requests) < MaxCalls
    /\ requests' = Append(requests, [endpoint |-> MethodTable[method].endpoint,
                                     base     |-> Base(method),
                                     url      |-> BaseUrl(method, client.v)])
    /\ response' = Some(outcome)
    /\ fetch_log' = Append(fetch_log, MethodResult(method, outcome))
    /\ client' = Some(SelfAfter(method, client.v))
    /\ UNCHANGED <<cmd, args, json_output, pc, inflight, all_users, cursor, progress,
                   returned, result, stdout, stderr, exit_code, credvars>>

NextClient ==
    \E method \in ClientMethods :
       \E outcome \in ClientOutcomes(method) : ClientCall(method, outcome)

SpecClient == InitClient /\ [][NextClient]_vars

(***************************************************************************)
(* Specification: `canny auth [--reset]` (main and handle_auth), with any  *)
(* keychain and any two lines on stdin.  A line is the sequence of its     *)
(* pieces, the whitespace apart: <<" ", "k9", "\n">>.                      *)
(***************************************************************************)
\* Trim with the line taken as it was read.
TrimNot(line) == Join(line)

\* str::trim(): the line without its leading and trailing whitespace
Trim(line) ==
    LET Whitespace == {" ", "\t", "\r", "\n"}
        RECURSIVE TrimStart(_)
        TrimStart(l) ==
            IF l # <<>> /\ l[1] \in Whitespace THEN TrimStart(Tail(l)) ELSE l
        RECURSIVE TrimEnd(_)
        TrimEnd(l) ==
            IF l # <<>> /\ l[Len(l)] \in Whitespace
            THEN TrimEnd(SubSeq(l, 1, Len(l) - 1))
            ELSE l
    IN  Join(TrimEnd(TrimStart(line)))

\* format!("https://{}.canny.io/api/v1", subdomain), "clickup" for an
\* empty subdomain
SubdomainUrl(line) ==
    "https://" \o (IF Trim(line) = "" THEN "clickup" ELSE Trim(line)) \o ".canny.io/api/v1"

\* The key as the status shows it.
Masked(api_key) ==
    IF Len(api_key) > 8 THEN [first |-> 4, last |-> 4, of |-> api_key] ELSE "****"

\* What read_line gives for the two prompts: a line, the empty line of an
\* end of input, or an error.
SubdomainLines ==
    {Ok(<<"\n">>), Ok(<<" ", "acme", "\n">>),
     Err(Failure("stream did not contain valid UTF-8"))}
KeyLines ==
    {Ok(<<>>), Ok(<<" ", "\t", "\n">>), Ok(<<" ", "k9", " ", "\n">>),
     Err(Failure("stream did not contain valid UTF-8"))}

\* What list_boards may be answered in the status check.
AuthOutcomes == ClientOutcomes("list_boards") \cup {Response(404, NotJson)}

InitAuth ==
    /\ cmd = "auth"
    /\ args \in [explicit_key : {None, Some("k3")}, explicit_url : ExplicitUrls,
                  reset : BOOLEAN, subdomain : SubdomainLines, api_key : KeyLines]
    /\ store \in {st \in Stores : ~st["default"].some}
    /\ credential_call = None
    /\ client = None
    /\ json_output = FALSE
    /\ pc = "start"
    /\ requests = <<>>
    /\ inflight = {}
    /\ all_users = <<>>
    /\ cursor = None
    /\ progress = <<>>
    /\ response = None
    /\ fetch_log = <<>>
    /\ returned = None
    /\ result = None
    /\ stdout = <<>>
    /\ stderr = <<>>
    /\ exit_code = -1

\* main, Commands::Auth: the keychain is cleared on --reset, whatever the
\* clear returns, and handle_auth is called.
AuthMain ==
    /\ cmd = "auth"
    /\ pc = "start"
    /\ IF args.reset
       THEN \E failing \in SUBSET Accounts :
               /\ store' = ClearStoredCredentials(store, failing).store
               /\ credential_call' =
                     Call("clear_stored_credentials", <<>>, failing,
                          ClearStoredCredentials(store, failing).result)
               /\ stdout' = Append(stdout, [line |-> "Credentials cleared."])
       ELSE UNCHANGED <<store, credential_call, stdout>>
    /\ pc' = "handle_auth"
    /\ UNCHANGED <<cmd, args, json_output, requests, inflight, all_users, cursor,
                   progress, response, fetch_log, returned, result, stderr, exit_code,
                   client>>

\* handle_auth with a key: the status is printed and list_boards called.
HandleAuthStatus ==
    /\ cmd = "auth"
    /\ pc = "handle_auth"
    /\ ResolveApiKey(store, args.explicit_key).ok
    /\ LET api_key == ResolveApiKey(store, args.explicit_key).v
           api_url == IF args.explicit_url.some THEN args.explicit_url.v
                      ELSE IF ResolveApiUrl(store, None, DEFAULT_API_URL).some
                      THEN ResolveApiUrl(store, None, DEFAULT_API_URL).v
                      ELSE DEFAULT_API_URL
       IN  /\ stdout' = stdout \o <<[line |-> "Canny CLI"],
                                     [line |-> "API URL", api_url |-> api_url],
                                     [line |-> "API key", api_key |-> Masked(api_key)],
                                     [line |-> "Verifying..."]>>
           /\ client' = Some(New(api_url, api_key))
    /\ requests' = Append(requests, Request("list_boards"))
    /\ inflight' = inflight \cup {Len(requests) + 1}
    /\ pc' = "await"
    /\ UNCHANGED <<cmd, args, json_output, all_users, cursor, progress, response,
                   fetch_log, returned, result, stderr, exit_code, credvars>>

\* handle_auth, from the result of list_boards on: Ok(()) either way.
HandleAuthVerified(outcome) ==
    /\ cmd = "auth"
    /\ pc = "await"
    /\ inflight' = inflight \ {Len(requests)}
    /\ response' = Some(outcome)
    /\ fetch_log' = Append(fetch_log, MethodResult("list_boards", outcome))
    /\ LET boards == MethodResult("list_boards", outcome) IN
       IF boards.ok
       THEN Return(Ok("unit"), <<[line |-> "Authenticated", boards |-> VecLen(boards.v.items)]>>)
       ELSE Return(Ok("unit"), <<[line |-> "Authentication failed", e |-> boards.e],
                                 [line |-> "Run canny auth --reset"]>>)
    /\ UNCHANGED <<cmd, args, json_output, requests, all_users, cursor, progress,
                   returned, credvars, client>>

\* handle_auth without a key, up to store_api_key(api_key)?
HandleAuthPrompt ==
    /\ cmd = "auth"
    /\ pc = "handle_auth"
    /\ ~ResolveApiKey(store, args.explicit_key).ok
    /\ LET header == <<[line |-> "Canny CLI Authentication"], [line |-> "Subdomain"]>>
           asked == header \o <<[line |-> "API key"]>>
       IN  IF ~args.subdomain.ok
           THEN /\ Return(args.subdomain, header)
                /\ UNCHANGED credvars
           ELSE IF ~args.api_key.ok
           THEN /\ Return(args.api_key, asked)
                /\ UNCHANGED credvars
           ELSE IF Trim(args.api_key.v) = ""
           THEN /\ Return(Err(Failure("API key cannot be empty")), asked)
                /\ UNCHANGED credvars
           ELSE \E io \in Faults :
                   LET stored == StoreApiKey(store, Trim(args.api_key.v), io) IN
                   /\ store' = stored.store
                   /\ credential_call' =
                         Call("store_api_key", Trim(args.api_key.v), io, stored.result)
                   /\ IF stored.result.ok
                      THEN /\ pc' = "store_api_url"
                           /\ stdout' = stdout \o asked
                           /\ UNCHANGED <<result, stderr, exit_code>>
                      ELSE Return(stored.result, asked)
    /\ UNCHANGED <<cmd, args, json_output, requests, inflight, all_users, cursor,
                   progress, response, fetch_log, returned, client>>

\* handle_auth, from store_api_url(&api_url)? on.
HandleAuthStoreUrl ==
    /\ cmd = "auth"
    /\ pc = "store_api_url"
    /\ \E io \in Faults :
          LET api_url == SubdomainUrl(args.subdomain.v)
              stored == StoreApiUrl(store, api_url, io)
          IN  /\ store' = stored.store
              /\ credential_call' = Call("store_api_url", api_url, io, stored.result)
              /\ IF stored.result.ok
                 THEN Return(Ok("unit"), <<[line |-> "Credentials saved to Keychain."],
                                           [line |-> "API URL", api_url |-> api_url]>>)
                 ELSE Return(stored.result, <<>>)
    /\ UNCHANGED <<cmd, args, json_output, requests, inflight, all_users, cursor,
                   progress, response, fetch_log, returned, client>>

NextAuth ==
    \/ AuthMain
    \/ HandleAuthStatus
    \/ \E outcome \in AuthOutcomes : HandleAuthVerified(outcome)
    \/ HandleAuthPrompt
    \/ HandleAuthStoreUrl

SpecAuth == InitAuth /\ [][NextAuth]_vars

\* A step of NextCeiling is possible: the call, a request under the bound of
\* the model, the response to the request in flight.
EnabledCeiling ==
    \/ pc = "start"
    \/ pc = "loop" /\ Len(requests) < MaxCeilingFetches
    \/ pc = "await"

\* The process runs on while it can and every fetch returns: weak fairness
\* of NextCeiling, with its enabling condition written out.
FairSpecCeiling == SpecCeiling /\ ([]<>(~EnabledCeiling) \/ []<><<NextCeiling>>_vars)

(***************************************************************************)
(* Properties.                                                             *)
(***************************************************************************)
Last(seq) == seq[Len(seq)]

RECURSIVE Concat(_)
Concat(seqs) ==
    IF seqs = <<>> THEN <<>>
    ELSE VecConcat(Concat(SubSeq(seqs, 1, Len(seqs) - 1)), Last(seqs))

\* The pages of the first n fetches, which all succeeded.
FetchedPages(n) == [i \in 1..n |-> fetch_log[i].v.users]

\* The i-th fetch returned a non-empty page with hasNextPage=true and a cursor.
FullPage(i) ==
    /\ fetch_log[i].ok
    /\ fetch_log[i].v.users # <<>>
    /\ fetch_log[i].v.has_next
    /\ fetch_log[i].v.next_cursor.some

UsersListDone == cmd = "users list" /\ pc = "exit"

\* C1: when the server answers list_users with full pages (hasNextPage=true
\* and a cursor) and then a final page with hasNextPage=false, list_users
\* returns the concatenation of the pages in the order they were fetched;
\* and the run does not end on a full page unless the accumulator has
\* passed the safety ceiling.
C1_Concatenation ==
    (UsersListDone /\ fetch_log # <<>>
       /\ \A i \in 1..(Len(fetch_log) - 1) : FullPage(i))
    => /\ (Last(fetch_log).ok /\ ~Last(fetch_log).v.has_next)
            => returned = Some(Ok(Concat(FetchedPages(Len(fetch_log)))))
       /\ FullPage(Len(fetch_log)) => VecLen(all_users) > SafetyLimit

\* Two full pages and a final partial page were fetched and returned.
C1_Witness ==
    /\ UsersListDone
    /\ Len(fetch_log) = 3
    /\ FullPage(1) /\ FullPage(2)
    /\ Last(fetch_log).ok /\ ~Last(fetch_log).v.has_next
    /\ Last(fetch_log).v.users # <<>>
    /\ returned.some /\ returned.v.ok /\ VecLen(returned.v.v) >= 4

\* C2: an empty page ends the loop, whatever its hasNextPage and cursor: it
\* is the last fetch, no request follows it, the progress callback is not
\* called for it, and list_users returns what it had accumulated before it.
C2_EmptyPageEnds ==
    \A i \in 1..Len(fetch_log) :
       (cmd = "users list" /\ fetch_log[i].ok /\ fetch_log[i].v.users = <<>>)
       => /\ i = Len(fetch_log)
          /\ Len(requests) = i
          /\ pc = "exit"
          /\ returned = Some(Ok(Concat(FetchedPages(i - 1))))
          /\ Len(progress) = IF OnProgress THEN i - 1 ELSE 0

\* An empty page with hasNextPage=true and a cursor came after two pages.
C2_Witness ==
    /\ UsersListDone
    /\ OnProgress
    /\ Len(fetch_log) = 3
    /\ Last(fetch_log).ok
    /\ Last(fetch_log).v.users = <<>>
    /\ Last(fetch_log).v.has_next
    /\ Last(fetch_log).v.next_cursor.some

\* C3: against a server that never ends, no request is issued or in flight
\* while the accumulator holds more than 100,000 records: as soon as it does,
\* list_users has returned the accumulator, successfully.
C3_SafetyCeiling ==
    cmd = "users list" =>
       /\ pc \in {"loop", "await"} => VecLen(all_users) <= SafetyLimit
       /\ VecLen(all_users) > SafetyLimit
            => /\ pc = "exit"
               /\ inflight = {}
               /\ returned = Some(Ok(all_users))
               /\ exit_code = 0

\* The run ended over the ceiling, all its pages being full pages.
C3_Witness ==
    /\ UsersListDone
    /\ VecLen(all_users) > SafetyLimit
    /\ FullPage(Len(fetch_log))

\* The cumulative lengths of the first n pages.
RECURSIVE Cumulative(_)
Cumulative(n) ==
    IF n = 0 THEN <<>> ELSE Append(Cumulative(n - 1), VecLen(Concat(FetchedPages(n))))

\* The number of fetches that returned a non-empty page: an empty page or
\* a failed fetch can only be the last one.
NonEmptyFetches ==
    IF fetch_log # <<>> /\ ~(Last(fetch_log).ok /\ Last(fetch_log).v.users # <<>>)
    THEN Len(fetch_log) - 1
    ELSE Len(fetch_log)

\* C4: the progress callback, when there is one, has been called once for
\* each non-empty page fetched, with the accumulator length after that page,
\* and for nothing else; the values are non-decreasing.
C4_Progress ==
    cmd = "users list" =>
       /\ progress = IF OnProgress THEN Cumulative(NonEmptyFetches) ELSE <<>>
       /\ \A i, j \in 1..Len(progress) : i <= j => progress[i] <= progress[j]

\* Two pages were reported and the third fetch failed.
C4_Witness ==
    /\ UsersListDone
    /\ Len(progress) = 2
    /\ Len(fetch_log) = 3
    /\ ~Last(fetch_log).ok

\* The page [A,B] with hasNextPage=true and cursor c1, and the page [C] with
\* hasNextPage=false.
PageAB ==
    Ok([users       |-> <<Run([id |-> "A"], 1), Run([id |-> "B"], 1)>>,
        next_cursor |-> Some("c1"),
        has_next    |-> TRUE])

IsPageC(page) ==
    page.ok /\ page.v.users = <<Run([id |-> "C"], 1)>> /\ ~page.v.has_next

\* C5: the first request carries no cursor and every later request carries
\* the cursor of the response before it; and the run that is served [A,B]
\* with cursor c1 and then [C] with hasNextPage=false makes two fetches,
\* with cursor c1 in the second, returns [A,B,C] and reports 2 then 3.
C5_CursorChain ==
    cmd = "users list" =>
       /\ \A i \in 1..Len(requests) :
             IF i = 1 THEN "cursor" \notin DOMAIN requests[i].body
             ELSE /\ "cursor" \in DOMAIN requests[i].body
                  /\ fetch_log[i - 1].ok
                  /\ fetch_log[i - 1].v.next_cursor = Some(requests[i].body["cursor"])
       /\ (Len(fetch_log) = 2 /\ fetch_log[1] = PageAB /\ IsPageC(fetch_log[2]))
            => /\ pc = "exit"
               /\ Len(requests) = 2
               /\ requests[2].body["cursor"] = "c1"
               /\ returned = Some(Ok(<<Run([id |-> "A"], 1), Run([id |-> "B"], 1),
                                        Run([id |-> "C"], 1)>>))
               /\ OnProgress => progress = <<2, 3>>

\* The scenario has run, with a progress callback.
C5_Witness ==
    /\ UsersListDone
    /\ OnProgress
    /\ Len(fetch_log) = 2 /\ fetch_log[1] = PageAB /\ IsPageC(fetch_log[2])
    /\ progress = <<2, 3>>

\* C6: a fetch that fails is the last one: list_users returns its error,
\* no request follows, the callback has been called for the pages before it
\* only, and the handler prints none of the records and ends with the error.
C6_FetchFailure ==
    \A i \in 1..Len(fetch_log) :
       (cmd = "users list" /\ ~fetch_log[i].ok)
       => /\ i = Len(fetch_log)
          /\ Len(requests) = i
          /\ pc = "exit"
          /\ returned = Some(fetch_log[i])
          /\ result = Some(fetch_log[i])
          /\ stdout = <<>>
          /\ exit_code = 1
          /\ Len(progress) = IF OnProgress THEN i - 1 ELSE 0

\* The third fetch got a response that is not 2xx, after two pages.
C6_Witness ==
    /\ UsersListDone
    /\ Len(fetch_log) = 3
    /\ ~Last(fetch_log).ok
    /\ Last(fetch_log).e.msg = "API error"
    /\ VecLen(all_users) >= 2

ListCommands == {c \in Commands : CommandTable[c].kind = "list"}

\* C7: a list command other than `users list` issues one request and no
\* more, whatever the response says about further pages; only `users list`
\* issues a second request.
C7_OneRequest ==
    /\ cmd \in ListCommands => Len(requests) <= 1
    /\ (cmd \in ListCommands /\ pc = "exit") => Len(requests) = 1
    /\ Len(requests) > 1 => cmd = "users list"

\* A cursor-paged list command ended after a response that has more pages
\* and a cursor.
C7_Witness ==
    /\ cmd = "ideas list"
    /\ pc = "exit"
    /\ Len(requests) = 1
    /\ Last(fetch_log).ok
    /\ Last(fetch_log).v.has_more
    /\ Last(fetch_log).v.cursor.some

\* The offset-paged list commands.
OffsetListCommands ==
    {"posts list", "comments list", "categories list", "tags list", "votes list",
     "status-changes list", "changelog list", "opportunities list"}

\* C8: an offset-paged list command in text mode, whose response has
\* hasMore=true and a non-empty page, prints a hint whose offset is
\* skip + limit.
C8_OffsetHint ==
    (/\ cmd \in OffsetListCommands
     /\ ~json_output
     /\ pc = "exit"
     /\ Last(fetch_log).ok
     /\ Last(fetch_log).v.has_more
     /\ Last(fetch_log).v.items # <<>>)
    => \E i \in 1..Len(stdout) :
          /\ stdout[i].line = "hint"
          /\ stdout[i].skip = Sum(args.skip, args.limit)

\* C9: a response whose status is not 2xx makes the method fail with the
\* API error that carries that status and that body, whatever the body.
C9_StatusFirst ==
    (/\ response.some
     /\ response.v.kind = "response"
     /\ (response.v.status < 200 \/ response.v.status > 299))
    => Last(fetch_log)
         = [ok |-> FALSE,
            e  |-> [msg |-> "API error", status |-> response.v.status,
                    text |-> response.v.text]]

\* get_post got a 404 whose body decodes as a post.
C9_Witness ==
    /\ cmd = "posts get"
    /\ response.some
    /\ response.v.kind = "response"
    /\ response.v.status = 404
    /\ response.v.text = JObj("post" :> RecordJson("CannyPost", "r1"))
    /\ ~Last(fetch_log).ok

\* The retrieve methods and the field that wraps their resource.
Wrapped ==
    ("posts get" :> "post") @@ ("comments get" :> "comment")
      @@ ("categories get" :> "category") @@ ("boards get" :> "board")
      @@ ("tags get" :> "tag") @@ ("companies get" :> "company")
      @@ ("votes get" :> "vote") @@ ("changelog get" :> "entry")
      @@ ("groups get" :> "group") @@ ("insights get" :> "insight")
      @@ ("ideas get" :> "idea") @@ ("users find" :> "user")

\* C10: a retrieve method whose 2xx response is an object with the wrapped
\* field null or missing returns None, not an error.
C10_NullIsNone ==
    (/\ cmd \in DOMAIN Wrapped
     /\ response.some
     /\ response.v.kind = "response"
     /\ response.v.status >= 200 /\ response.v.status <= 299
     /\ response.v.text.t = "obj"
     /\ \/ Wrapped[cmd] \notin DOMAIN response.v.text.o
        \/ response.v.text.o[Wrapped[cmd]].t = "null")
    => Last(fetch_log) = [ok |-> TRUE, v |-> [some |-> FALSE]]

\* find_user got a 200 with {"user": null}.
C10_Witness ==
    /\ cmd = "users find"
    /\ response.some
    /\ response.v.kind = "response"
    /\ response.v.status = 200
    /\ response.v.text = JObj("user" :> JNull)
    /\ Last(fetch_log) = Ok(None)

\* The commands whose method decodes the body of its response.
DecodingCommands ==
    {c \in Commands \ {"users list"} : MethodTable[CommandTable[c].method].decode # "unit"}

\* C11: a method that decodes its response fails, on a 2xx response whose
\* body is not JSON or is the JSON null, with an error that is not the API
\* error: it returns neither a value nor an empty result.
C11_DecodeError ==
    (/\ cmd \in DecodingCommands
     /\ response.some
     /\ response.v.kind = "response"
     /\ IsSuccess(response.v.status)
     /\ response.v.text \in {NotJson, JNull})
    => /\ ~Last(fetch_log).ok
       /\ Last(fetch_log).e.msg # "API error"

\* C12: the keys of the body of a request are the mandatory keys of the
\* method, apiKey among them, and the keys of the Option parameters that
\* were Some; and no optional key has the value null.
C12_BodyKeys ==
    (pc = "await" /\ "options" \in DOMAIN args)
    => LET body == Last(requests).body
           b == BodyTable[Calls(cmd)]
       IN  /\ "apiKey" \in DOMAIN body
           /\ DOMAIN body = DOMAIN b.mandatory \cup DOMAIN args.options
           /\ \A k \in DOMAIN b.optional \cap DOMAIN body : body[k] # JNull

GetCommands == {c \in Commands : CommandTable[c].kind = "get"}

\* C13: a get or find command whose method returned None prints a not-found
\* message on stderr and exits with code 1 without returning from its
\* handler; one whose method failed returns that error from the handler
\* (reported by main, code 1); one whose method found the resource prints
\* it and exits with code 0.
C13_NotFound ==
    (cmd \in GetCommands /\ pc = "exit" /\ fetch_log # <<>>)
    => LET r == Last(fetch_log) IN
       /\ (r.ok /\ ~r.v.some)
            => /\ stderr = <<[line |-> "not found"]>>
               /\ stdout = <<>>
               /\ exit_code = 1
               /\ result = None
       /\ (r.ok /\ r.v.some)
            => /\ stdout = <<[line |-> "detail", record |-> r.v.v]>>
               /\ stderr = <<>>
               /\ exit_code = 0
               /\ result = Some(Ok("unit"))
       /\ ~r.ok
            => /\ result = Some(r)
               /\ stderr = <<[line |-> "Error", e |-> r.e]>>
               /\ stdout = <<>>
               /\ exit_code = 1

\* get_post returned None for {"post": null} and the process exited with 1.
C13_Witness ==
    /\ cmd = "posts get"
    /\ pc = "exit"
    /\ fetch_log = <<Ok(None)>>
    /\ response = Some(Response(200, JObj("post" :> JNull)))
    /\ stderr = <<[line |-> "not found"]>>
    /\ exit_code = 1

\* The entry of an account holds a string.
HoldsString(st, account) == st[account].some /\ st[account].v.utf8

\* C14: resolve_api_key returns the explicit key when one is given, whatever
\* the keychain holds; without one it returns the key the keychain holds;
\* with neither (no entry, or an entry that is no string) it fails; and it
\* leaves the keychain as it was.
C14_ResolveApiKey ==
    (credential_call.some /\ credential_call.v.op = "resolve_api_key")
    => LET call == credential_call.v
           stored == call.before[KEYCHAIN_ACCOUNT_API_KEY]
       IN  /\ call.arg.some => call.result = Ok(call.arg.v)
           /\ (~call.arg.some /\ HoldsString(call.before, KEYCHAIN_ACCOUNT_API_KEY))
                => call.result = Ok(stored.v.s)
           /\ (~call.arg.some /\ ~HoldsString(call.before, KEYCHAIN_ACCOUNT_API_KEY))
                => ~call.result.ok
           /\ store = call.before

\* An explicit key was resolved while the keychain held another key.
C14_Witness ==
    /\ credential_call.some
    /\ credential_call.v.op = "resolve_api_key"
    /\ credential_call.v.arg = Some("k3")
    /\ credential_call.v.before[KEYCHAIN_ACCOUNT_API_KEY] = Some(AsBytes("k1"))
    /\ credential_call.v.result = Ok("k3")

\* The account a store function writes.
AccountOf(op) ==
    IF op = "store_api_key" THEN KEYCHAIN_ACCOUNT_API_KEY ELSE KEYCHAIN_ACCOUNT_API_URL

\* C15: after store_api_key(k) or store_api_url(u) returned success, the
\* keychain holds exactly that value for the account, the other accounts are
\* as before, whether or not the account had an entry; and when no call of
\* the keychain fails for a reason of its own, the function succeeds, also
\* on an entry that exists and a keychain whose set does not overwrite.
C15_StoreOverwrites ==
    (credential_call.some
       /\ credential_call.v.op \in {"store_api_key", "store_api_url"})
    => LET call == credential_call.v
           account == AccountOf(call.op)
       IN  /\ call.result.ok
                => /\ store[account] = Some(AsBytes(call.arg))
                   /\ \A a \in Accounts \ {account} : store[a] = call.before[a]
           /\ (~call.io.delete /\ ~call.io.set) => call.result.ok

\* A key was stored over another one, in a keychain whose set does not
\* overwrite.
C15_Witness ==
    /\ credential_call.some
    /\ credential_call.v.op = "store_api_key"
    /\ credential_call.v.arg = "k2"
    /\ credential_call.v.before[KEYCHAIN_ACCOUNT_API_KEY] = Some(AsBytes("k1"))
    /\ ~credential_call.v.io.overwrites
    /\ credential_call.v.result.ok
    /\ store[KEYCHAIN_ACCOUNT_API_KEY] = Some(AsBytes("k2"))

\* C16: after a non-empty page was appended, list_users goes on to another
\* fetch if and only if the hasNextPage of the response is the boolean true,
\* its cursor is a string and the accumulator holds at most 100,000 records;
\* the cursor of the next request is then that string.
C16_Continues ==
    (/\ cmd = "users list"
     /\ response.some
     /\ Last(fetch_log).ok
     /\ Last(fetch_log).v.users # <<>>)
    => LET body == response.v.text.o
           flag == "hasNextPage" \in DOMAIN body /\ body["hasNextPage"] = JBool(TRUE)
           string == "cursor" \in DOMAIN body /\ body["cursor"].t = "str"
       IN  /\ pc \in {"loop", "await"}
                <=> (flag /\ string /\ VecLen(all_users) <= SafetyLimit)
           /\ pc \in {"loop", "await"} => cursor = Some(body["cursor"].s)

\* The second page has a cursor and the string "true" for hasNextPage:
\* list_users returned after it.
C16_Witness ==
    /\ UsersListDone
    /\ Len(fetch_log) = 2
    /\ {"hasNextPage", "cursor"} \subseteq DOMAIN response.v.text.o
    /\ response.v.text.o["hasNextPage"] = JStr("true")
    /\ response.v.text.o["cursor"] = JStr("c1")
    /\ returned = Some(Ok(all_users))
    /\ VecLen(all_users) = 2 * PageLimit

PageSize == VecLen(fetch_log[1].v.users)

\* C18: the ceiling is looked at only after a page was appended and
\* reported: before any append the accumulator holds at most 100,000
\* records, so that against a server whose pages have at most 100 records
\* the accumulator, the returned sequence and every value given to the
\* progress callback are at most 100,100.
C18_CeilingOvershoot ==
    cmd = "users list" =>
       /\ pc \in {"loop", "await"} => VecLen(all_users) <= SafetyLimit
       /\ (fetch_log # <<>> /\ PageSize <= PageLimit)
            => /\ VecLen(all_users) <= SafetyLimit + PageLimit
               /\ \A i \in 1..Len(progress) : progress[i] <= SafetyLimit + PageLimit
               /\ (returned.some /\ returned.v.ok)
                    => VecLen(returned.v.v) <= SafetyLimit + PageLimit

\* Against a server of 100 records a page, 100,100 records were reported to
\* the callback and returned: more than the ceiling.
C18_Witness ==
    /\ UsersListDone
    /\ PageSize = PageLimit
    /\ Last(progress) = SafetyLimit + PageLimit
    /\ returned.some /\ returned.v.ok
    /\ VecLen(returned.v.v) = SafetyLimit + PageLimit
    /\ VecLen(returned.v.v) > SafetyLimit

\* a is the beginning of b, record for record.
IsPrefix(a, b) ==
    /\ VecLen(a) <= VecLen(b)
    /\ \A i \in 1..VecLen(a) : VecAt(a, i) = VecAt(b, i)

\* C19: at every point of a list_users run the accumulator is the
\* concatenation, in fetch order, of the non-empty pages received so far;
\* a step only appends at its end, and the records the server repeats are
\* kept.
C19_AppendOnly ==
    /\ [](cmd = "users list" => all_users = Concat(FetchedPages(NonEmptyFetches)))
    /\ [][cmd = "users list"
            => /\ IsPrefix(all_users, all_users')
               /\ all_users' # all_users
                    => /\ Len(fetch_log') = Len(fetch_log) + 1
                       /\ all_users' = VecConcat(all_users, Last(fetch_log').v.users)]_vars

\* The server sent the same page twice and a third fetch is under way: the
\* accumulator holds the records of the page twice.
C19_Witness ==
    /\ cmd = "users list"
    /\ pc = "await"
    /\ Len(fetch_log) = 2
    /\ fetch_log[1].v.users = fetch_log[2].v.users
    /\ VecLen(fetch_log[1].v.users) = 2
    /\ VecLen(all_users) = 4
    /\ VecAt(all_users, 1) = VecAt(all_users, 3)
    /\ VecAt(all_users, 2) = VecAt(all_users, 4)

\* C20: during a list_users run at most one request is outstanding, and
\* it is the last one sent; the request for page N+1 is sent only when the
\* response for page N has been received and decoded into a page.
C20_Sequential ==
    /\ [](cmd = "users list"
            => /\ Cardinality(inflight) <= 1
               /\ inflight \subseteq {Len(requests)}
               /\ Len(requests) = Len(fetch_log) + Cardinality(inflight)
               /\ (pc = "await") <=> (inflight # {}))
    /\ [][(cmd = "users list" /\ Len(requests') > Len(requests))
            => /\ inflight = {}
               /\ Len(requests') = Len(requests) + 1
               /\ Len(fetch_log) = Len(requests)
               /\ \A i \in 1..Len(requests) : fetch_log[i].ok]_vars

\* The third request is outstanding, the first two having been answered
\* and decoded.
C20_Witness ==
    /\ cmd = "users list"
    /\ Len(requests) = 3
    /\ inflight = {3}
    /\ Len(fetch_log) = 2
    /\ FullPage(1) /\ FullPage(2)

\* The last response is a 2xx response whose body is a JSON object.
ObjectResponse ==
    /\ response.some
    /\ response.v.kind = "response"
    /\ IsSuccess(response.v.status)
    /\ response.v.text.t = "obj"

\* C21: the users-list and companies-list calls take the payload from the
\* key `items` when the body has it, also when it has the legacy key too,
\* else from the legacy key, else the payload is the empty array; so that
\* list_users, answered with an object that has neither key, returns after
\* that fetch without a record of it, whatever hasNextPage and cursor are:
\* an empty sequence when the fetch was the first.
C21_ItemsFirst ==
    (cmd \in {"users list", "companies list"} /\ ObjectResponse)
    => LET body == response.v.text.o
           legacy == IF cmd = "users list" THEN "users" ELSE "companies"
           type == IF cmd = "users list" THEN "CannyUserFull" ELSE "CannyCompany"
           payload == IF "items" \in DOMAIN body THEN body["items"]
                      ELSE IF legacy \in DOMAIN body THEN body[legacy]
                      ELSE JArr(<<>>)
           got == Last(fetch_log)
       IN  /\ got.ok <=> DecodeVec(payload, type).ok
           /\ got.ok => DecodeVec(payload, type).v
                           = IF cmd = "users list" THEN got.v.users ELSE got.v.items
           /\ (cmd = "users list" /\ {"items", legacy} \cap DOMAIN body = {})
                => /\ pc = "exit"
                   /\ returned = Some(Ok(Concat(FetchedPages(Len(fetch_log) - 1))))
                   /\ Len(requests) = Len(fetch_log)
                   /\ Len(fetch_log) = 1 => returned = Some(Ok(<<>>))

\* The first response had [C] under `items` and [A,B] under `users`, and
\* the page is [C]; the second had neither key, with hasNextPage=true and
\* a cursor, and list_users returned [C] after it.
C21_Witness ==
    /\ UsersListDone
    /\ Len(fetch_log) = 2
    /\ ObjectResponse
    /\ {"items", "users"} \cap DOMAIN response.v.text.o = {}
    /\ {"hasNextPage", "cursor"} \subseteq DOMAIN response.v.text.o
    /\ response.v.text.o["hasNextPage"] = JBool(TRUE)
    /\ response.v.text.o["cursor"].t = "str"
    /\ fetch_log[1].v.users = Vec(<<[id |-> "C"]>>)
    /\ returned = Some(Ok(Vec(<<[id |-> "C"]>>)))

\* The endpoints of the two calls that post to the v2 API.
V2Endpoints == {"/users/list", "/companies/list"}

\* C22: the substitution of /v2 for /v1 made by the users-list and
\* companies-list calls is local to the call: in any sequence of calls on
\* one client the client keeps the base URL it was configured with, and
\* every call of another endpoint, before or after a v2 call, posts to
\* that URL; the v2 calls post to it with every /v1 replaced by /v2.
C22_BaseUrlLocal ==
    cmd = "client" =>
       /\ client = Some([api_url |-> args.api_url, api_key |-> args.api_key])
       /\ \A i \in 1..Len(requests) :
             IF requests[i].endpoint \in V2Endpoints
             THEN requests[i].url
                    = [j \in DOMAIN Chunks(args.api_url) |->
                         IF Chunks(args.api_url)[j] = "/v1" THEN "/v2"
                         ELSE Chunks(args.api_url)[j]]
             ELSE requests[i].url = Chunks(args.api_url)

\* A v1 call, a v2 call that did post to /v2, and a v1 call again.
C22_Witness ==
    /\ cmd = "client"
    /\ Len(requests) = 3
    /\ requests[1].endpoint = "/boards/list"
    /\ requests[2].endpoint = "/users/list"
    /\ requests[3].endpoint = "/posts/list"
    /\ requests[2].url = <<"https://canny.io/api", "/v2">>
    /\ requests[1].url = <<"https://canny.io/api", "/v1">>
    /\ requests[3].url = requests[1].url

\* The body is not a user record: not JSON, or an object without a string
\* `id`, or an array that does not begin with a string, or a scalar.
NotAUser(text) ==
    CASE text.t = "obj" -> "id" \notin DOMAIN text.o \/ text.o["id"].t # "str"
      [] text.t = "arr" -> text.a = <<>> \/ text.a[1].x.t # "str"
      [] OTHER -> TRUE

\* C23: get_user takes a 2xx response whose body is not a user record for
\* None, not for a decode error, and `users get` then says not found and
\* exits with 1; a response that is not 2xx is the API error, whatever its
\* body.
C23_PermissiveUser ==
    (/\ cmd = "users get"
     /\ response.some
     /\ response.v.kind = "response")
    => /\ (IsSuccess(response.v.status) /\ NotAUser(response.v.text))
            => /\ Last(fetch_log) = Ok(None)
               /\ result = None
               /\ stderr = <<[line |-> "not found"]>>
               /\ stdout = <<>>
               /\ exit_code = 1
       /\ ~IsSuccess(response.v.status)
            => /\ Last(fetch_log) = Err(ApiError(response.v.status, response.v.text))
               /\ result = Some(Last(fetch_log))
               /\ exit_code = 1

\* The server answered 200 with a body that is not JSON, and `users get`
\* said not found.
C23_Witness ==
    /\ cmd = "users get"
    /\ response = Some(Response(200, NotJson))
    /\ fetch_log = <<Ok(None)>>
    /\ stderr = <<[line |-> "not found"]>>
    /\ exit_code = 1

\* The arguments of the invocation are bad in a way the handler detects:
\* no identifying argument for a get or find command, or a custom-fields
\* argument that is not JSON for a create or update command.
LocallyBad ==
    \/ cmd \in {"posts get", "groups get", "ideas get"}
          /\ args.given \cap {"id", "url_name"} = {}
    \/ cmd = "users get" /\ args.given \cap {"id", "email"} = {}
    \/ cmd = "users find" /\ args.given \cap {"user_id", "email", "name"} = {}
    \/ cmd \in {"posts create", "posts update", "users create", "companies update"}
          /\ args.custom_fields = "garbage"

\* C24: bad input the handler detects is rejected before any network
\* activity: no request is ever issued, and the command, once it has run,
\* has failed with an error, exit code 1 and nothing printed on stdout.
C24_RejectedBeforeNetwork ==
    (cmd \in Commands /\ LocallyBad)
    => /\ requests = <<>>
       /\ inflight = {}
       /\ response = None
       /\ pc \in {"start", "exit"}
       /\ pc = "exit"
            => /\ result.some /\ ~result.v.ok
               /\ stderr = <<[line |-> "Error", e |-> result.v.e]>>
               /\ stdout = <<>>
               /\ exit_code = 1

\* `posts create` was given custom fields that are not JSON, and failed
\* without a request.
C24_Witness ==
    /\ cmd = "posts create"
    /\ args.custom_fields = "garbage"
    /\ pc = "exit"
    /\ requests = <<>>
    /\ result = Some(Err(Failure("Invalid JSON for custom fields")))
    /\ exit_code = 1

\* C25: resolve_api_url returns the explicit URL when one is given and it
\* is not the default; else the URL the keychain holds, when it holds one,
\* also when the explicit URL is the default; else (no entry, or an entry
\* that is no string) nothing.  It leaves the keychain as it was.
C25_ResolveApiUrl ==
    (credential_call.some /\ credential_call.v.op = "resolve_api_url")
    => LET call == credential_call.v
           explicit == call.arg.some /\ call.arg.v # DEFAULT_API_URL
           stored == call.before[KEYCHAIN_ACCOUNT_API_URL]
       IN  /\ explicit => call.result = Some(call.arg.v)
           /\ (~explicit /\ HoldsString(call.before, KEYCHAIN_ACCOUNT_API_URL))
                => call.result = Some(stored.v.s)
           /\ (~explicit /\ ~HoldsString(call.before, KEYCHAIN_ACCOUNT_API_URL))
                => call.result = None
           /\ store = call.before

\* The explicit URL was the default and the keychain held another URL,
\* which was returned.
C25_Witness ==
    /\ credential_call.some
    /\ credential_call.v.op = "resolve_api_url"
    /\ credential_call.v.arg = Some(DEFAULT_API_URL)
    /\ credential_call.v.before[KEYCHAIN_ACCOUNT_API_URL] = Some(AsBytes("u1"))
    /\ credential_call.v.result = Some("u1")

\* The delete of the entry of an account failed in the call: the keychain
\* failed, or there was no entry.
DeleteFailed(call, account) == account \in call.io \/ ~call.before[account].some

\* C26: clear_stored_credentials fails if and only if the delete of the
\* API-key entry and the delete of the API-URL entry both failed; and after
\* a call that deleted every entry there was, the keychain holds neither,
\* resolve_api_key without an explicit key fails and resolve_api_url
\* without an explicit URL returns nothing.
C26_ClearStoredCredentials ==
    (credential_call.some /\ credential_call.v.op = "clear_stored_credentials")
    => LET call == credential_call.v IN
       /\ ~call.result.ok <=> /\ DeleteFailed(call, KEYCHAIN_ACCOUNT_API_KEY)
                               /\ DeleteFailed(call, KEYCHAIN_ACCOUNT_API_URL)
       /\ \A a \in Accounts : ~DeleteFailed(call, a) => ~store[a].some
       /\ \A a \in Accounts : DeleteFailed(call, a) => store[a] = call.before[a]
       /\ (\A a \in {KEYCHAIN_ACCOUNT_API_KEY, KEYCHAIN_ACCOUNT_API_URL} :
               call.before[a].some => a \notin call.io)
            => /\ ~store[KEYCHAIN_ACCOUNT_API_KEY].some
               /\ ~store[KEYCHAIN_ACCOUNT_API_URL].some
               /\ ~ResolveApiKey(store, None).ok
               /\ ResolveApiUrl(store, None, DEFAULT_API_URL) = None

\* The key was deleted and the delete of the URL failed: the call
\* succeeded and the URL is still there.
C26_Witness ==
    /\ credential_call.some
    /\ credential_call.v.op = "clear_stored_credentials"
    /\ credential_call.v.before[KEYCHAIN_ACCOUNT_API_KEY] = Some(AsBytes("k1"))
    /\ credential_call.v.before[KEYCHAIN_ACCOUNT_API_URL] = Some(AsBytes("u1"))
    /\ credential_call.v.io = {KEYCHAIN_ACCOUNT_API_URL}
    /\ credential_call.v.result = Ok("unit")
    /\ store[KEYCHAIN_ACCOUNT_API_KEY] = None
    /\ store[KEYCHAIN_ACCOUNT_API_URL] = Some(AsBytes("u1"))

\* C27: when list_users, called with a progress callback, returns a
\* sequence that is not empty, the values the callback was given are
\* strictly increasing and the last of them is the length of that
\* sequence.
C27_StrictProgress ==
    (/\ cmd = "users list"
     /\ OnProgress
     /\ returned.some /\ returned.v.ok
     /\ returned.v.v # <<>>)
    => /\ progress # <<>>
       /\ \A i, j \in 1..Len(progress) : i < j => progress[i] < progress[j]
       /\ Last(progress) = VecLen(returned.v.v)

\* Three pages were fetched, and 2, 3 and 5 reported; five records were
\* returned.
C27_Witness ==
    /\ UsersListDone
    /\ ~json_output
    /\ progress = <<2, 3, 5>>
    /\ returned.some /\ returned.v.ok
    /\ VecLen(returned.v.v) = 5

\* C28: for every skip and limit, the offset in the `--skip` hint of a list
\* command is the integer sum skip + limit, and the addition does not end
\* the command.
C28_ExactOffset ==
    cmd \in OffsetListCommands
    => /\ exit_code # 101
       /\ \A i \in 1..Len(stdout) :
             stdout[i].line = "hint" => stdout[i].skip = Sum(args.skip, args.limit)

\* C29: store_api_key and store_api_url delete the entry and then set it,
\* without rollback: when the set fails after the delete removed an entry,
\* the call returns an error and the keychain no longer holds the old
\* value; the failing call has changed the keychain.
C29_NoRollback ==
    (credential_call.some
       /\ credential_call.v.op \in {"store_api_key", "store_api_url"})
    => LET call == credential_call.v
           account == AccountOf(call.op)
           deleted == call.before[account].some /\ ~call.io.delete
       IN  /\ (deleted /\ call.io.set)
                => /\ ~call.result.ok
                   /\ ~store[account].some
                   /\ GetStored(store, account) = None
                   /\ store # call.before
           /\ ~call.result.ok
                => /\ store[account] = IF deleted THEN None ELSE call.before[account]
                   /\ \A a \in Accounts \ {account} : store[a] = call.before[a]

\* The set of a new key failed after the delete of the old one: the call
\* failed and the keychain holds no key.
C29_Witness ==
    /\ credential_call.some
    /\ credential_call.v.op = "store_api_key"
    /\ credential_call.v.arg = "k2"
    /\ credential_call.v.before[KEYCHAIN_ACCOUNT_API_KEY] = Some(AsBytes("k1"))
    /\ credential_call.v.io.set /\ ~credential_call.v.io.delete
    /\ ~credential_call.v.result.ok
    /\ store[KEYCHAIN_ACCOUNT_API_KEY] = None
    /\ ~ResolveApiKey(store, None).ok

\* The line holds nothing but whitespace.
Blank(line) == \A i \in 1..Len(line) : line[i] \in {" ", "\t", "\r", "\n"}

\* handle_auth is about to run without a resolvable key, and both lines
\* can be read.
Interactive ==
    /\ cmd = "auth"
    /\ pc = "handle_auth"
    /\ ~args.explicit_key.some
    /\ ~HoldsString(store, KEYCHAIN_ACCOUNT_API_KEY)
    /\ args.subdomain.ok /\ args.api_key.ok

\* C30: in the interactive auth flow a key that is empty after trimming
\* makes the command fail with an error and without a call that writes the
\* keychain, which is left as handle_auth found it; a key that is not empty
\* is stored first, the URL entry being untouched until that succeeded.
C30_EmptyKeyNoWrite ==
    /\ [][(Interactive /\ Blank(args.api_key.v))
            => /\ store' = store
               /\ credential_call' = credential_call
               /\ result' = Some(Err(Failure("API key cannot be empty")))
               /\ exit_code' = 1
               /\ pc' = "exit"]_vars
    /\ [][(Interactive /\ ~Blank(args.api_key.v))
            => /\ credential_call'.some
               /\ credential_call'.v.op = "store_api_key"
               /\ store'[KEYCHAIN_ACCOUNT_API_URL] = store[KEYCHAIN_ACCOUNT_API_URL]
               /\ pc' = "store_api_url" <=> credential_call'.v.result.ok
               /\ pc' # "store_api_url" => (exit_code' = 1 /\ pc' = "exit")]_vars
    /\ []((cmd = "auth" /\ credential_call.some
             /\ credential_call.v.op = "store_api_url")
            => /\ HoldsString(credential_call.v.before, KEYCHAIN_ACCOUNT_API_KEY)
               /\ store[KEYCHAIN_ACCOUNT_API_KEY]
                    = credential_call.v.before[KEYCHAIN_ACCOUNT_API_KEY])

\* `canny auth` with a stored URL and no key was given a line of
\* whitespace for the key: it failed, and the keychain is as it was.
C30_Witness ==
    /\ cmd = "auth"
    /\ ~args.reset
    /\ args.api_key = Ok(<<" ", "\t", "\n">>)
    /\ pc = "exit"
    /\ result = Some(Err(Failure("API key cannot be empty")))
    /\ exit_code = 1
    /\ credential_call = None
    /\ store[KEYCHAIN_ACCOUNT_API_KEY] = None
    /\ store[KEYCHAIN_ACCOUNT_API_URL] = Some(AsBytes("u1"))
====
